---- MODULE Spec2Model ----
(***************************************************************************)
(* A model of the SVJif compiler core: the canonical AST validator         *)
(* (validateCanonicalAst, detectCycles) and the deterministic IR emitter   *)
(* (emitSvjifIrArtifact, topoSort, sortReady).                             *)
(*                                                                         *)
(* JavaScript values are modelled as follows.                              *)
(*   - a string is a TLA+ string; the value `undefined` of an optional     *)
(*     string field is the marker string "undefined", which is never used  *)
(*     as an id;                                                           *)
(*   - a number is a record [t, v]: t = "num" with the integer v, t = "inf"*)
(*     with the sign v, t = "nan", or t = "undefined" for an unset         *)
(*     optional number;                                                    *)
(*   - strings are compared by code unit through their place in StrOrder,  *)
(*     the strings of the model listed in ascending code-unit order.       *)
(***************************************************************************)
EXTENDS Integers, Sequences, FiniteSets, TLC

VARIABLES
    ast,          \* the CanonicalSceneAst handed to the validator / emitter
    pc,           \* "input", then "validated" or "emitted"
    diagnostics,  \* the Diagnostic[] returned by validateCanonicalAst
    ir,           \* the IR document built by emitSvjifIrArtifact
    input,        \* the argument of compile, stableStringify or
                  \* buildIdentifierMap
    artifacts,    \* the ArtifactMap of a compilation: key -> content
    returned,     \* what the entry point returned or threw
    trace,        \* the phases a compilation has run, in order
    revision,     \* which of the revisions src/ keeps of the entry point runs
    calls,        \* the invocations of compile that run interleaved
    objects,      \* the objects those invocations allocated or share
    loop          \* the locals of the Kahn loop that is running

vars ==
    <<ast, pc, diagnostics, ir, input, artifacts, returned, trace, revision,
      calls, objects, loop>>

\* The longest node array of an input AST.
MaxNodes == 3

----------------------------------------------------------------------------
(* JavaScript values *)

undefined == "undefined"

Num(n) == [t |-> "num", v |-> n]
PosInf == [t |-> "inf", v |-> 1]
NegInf == [t |-> "inf", v |-> -1]
NaN == [t |-> "nan", v |-> 0]
NumUndefined == [t |-> "undefined", v |-> 0]

\* a - b on JavaScript numbers.
JsSub(a, b) ==
    IF a.t = "nan" \/ b.t = "nan" THEN NaN
    ELSE IF a.t = "num" /\ b.t = "num" THEN Num(a.v - b.v)
    ELSE IF a.t = "inf" /\ b.t = "inf" THEN (IF a.v = b.v THEN NaN ELSE a)
    ELSE IF a.t = "inf" THEN a
    ELSE [t |-> "inf", v |-> 0 - b.v]

\* x <= 0 on JavaScript numbers: every comparison with NaN is false.
JsLeqZero(x) ==
    IF x.t = "num" THEN x.v <= 0
    ELSE IF x.t = "inf" THEN x.v < 0
    ELSE FALSE

\* The strings of the model in ascending code-unit order (upper case letters
\* come before lower case ones).
StrOrder ==
    <<"Ellipse", "Group", "Image", "Line", "Path", "Rect", "Text", "Widget",
      "a", "b", "c", "d", "e">>

StrRank(s) == CHOOSE i \in DOMAIN StrOrder : StrOrder[i] = s

cmpStr(a, b) ==
    IF StrRank(a) < StrRank(b) THEN -1
    ELSE IF StrRank(a) > StrRank(b) THEN 1
    ELSE 0

----------------------------------------------------------------------------
(* The IR emitter *)

IR_VERSION == "svjif-ir/1"

normalizeZIndex(z) == IF z.t = "undefined" THEN Num(0) ELSE z

\* A destructuring that takes out sourceRef only.
sanitizeKeepsTypename(node) ==
    [f \in (DOMAIN node) \ {"sourceRef"} |-> node[f]]

\* const { sourceRef: _s, __typename: _t, ...clean } = n
sanitize(node) ==
    [f \in (DOMAIN node) \ {"sourceRef", "__typename"} |-> node[f]]

\* The comparator of sortReady; it returns a JavaScript number.
sortReadyCompare(a, b) ==
    LET zDiff == JsSub(normalizeZIndex(a.zIndex), normalizeZIndex(b.zIndex))
        kindCmp == cmpStr(a.kind, b.kind)
    IN  IF zDiff # Num(0) THEN zDiff
        ELSE IF kindCmp # 0 THEN Num(kindCmp)
        ELSE Num(cmpStr(a.id, b.id))

\* Array.prototype.sort reads the comparator's result through its sign and
\* takes NaN for +0.
SortCompare(a, b) ==
    LET r == sortReadyCompare(a, b)
    IN  IF r.t = "nan" THEN 0
        ELSE IF r.v < 0 THEN -1
        ELSE IF r.v > 0 THEN 1
        ELSE 0

\* Array.prototype.sort is stable: x, which came after every element of the
\* sorted prefix, goes before the first element that compares greater.
RECURSIVE InsertStable(_, _)
InsertStable(sorted, x) ==
    IF sorted = <<>> THEN <<x>>
    ELSE IF SortCompare(Head(sorted), x) > 0 THEN <<x>> \o sorted
    ELSE <<Head(sorted)>> \o InsertStable(Tail(sorted), x)

RECURSIVE sortReady(_)
sortReady(arr) ==
    IF arr = <<>> THEN <<>>
    ELSE InsertStable(sortReady(SubSeq(arr, 1, Len(arr) - 1)), arr[Len(arr)])

NodeIds(nodes) == {nodes[i].id : i \in DOMAIN nodes}

\* The second loop of topoSort: a node counts an edge when its parentId names
\* a key of the children map.
HasResolvedParent(nodes, n) ==
    n.parentId # undefined /\ n.parentId \in NodeIds(nodes)

TopoInDegree(nodes) ==
    [id \in NodeIds(nodes) |->
        Cardinality({i \in DOMAIN nodes :
            nodes[i].id = id /\ HasResolvedParent(nodes, nodes[i])})]

TopoChildren(nodes) ==
    [id \in NodeIds(nodes) |->
        LET IsChild(n) == HasResolvedParent(nodes, n) /\ n.parentId = id
        IN  SelectSeq(nodes, IsChild)]

\* A seed that skips the in-degree test: every node starts in the ready queue.
TopoInitialReadyAll(nodes, inDegree) == sortReady(nodes)

\* The initial ready queue: the nodes whose id has in-degree 0, sorted.
TopoInitialReady(nodes, inDegree) ==
    LET IsRoot(n) == inDegree[n.id] = 0
    IN  sortReady(SelectSeq(nodes, IsRoot))

\* The inner for loop over the children of the dequeued node: [inDegree, newlyReady].
RECURSIVE TopoDecrement(_, _, _)
TopoDecrement(ch, inDegree, newlyReady) ==
    IF ch = <<>> THEN [inDegree |-> inDegree, newlyReady |-> newlyReady]
    ELSE LET child == Head(ch)
             newDeg == inDegree[child.id] - 1
         IN  TopoDecrement(Tail(ch),
                           [inDegree EXCEPT ![child.id] = newDeg],
                           IF newDeg = 0 THEN Append(newlyReady, child) ELSE newlyReady)

\* The while loop of topoSort; qi counts the dequeued nodes.
RECURSIVE TopoLoop(_, _, _, _, _)
TopoLoop(children, ready, qi, inDegree, result) ==
    IF qi >= Len(ready) THEN [result |-> result, inDegree |-> inDegree]
    ELSE LET node == ready[qi + 1]
             dec == TopoDecrement(children[node.id], inDegree, <<>>)
             tail == SubSeq(ready, qi + 2, Len(ready))
             ready2 == IF dec.newlyReady # <<>>
                       THEN SubSeq(ready, 1, qi + 1)
                            \o sortReady(tail \o sortReady(dec.newlyReady))
                       ELSE ready
         IN  TopoLoop(children, ready2, qi + 1, dec.inDegree,
                      Append(result, sanitize(node)))

\* The nodes appended after the loop: those whose id kept a positive in-degree.
TopoRemaining(nodes, inDegree) ==
    LET Left(n) == inDegree[n.id] > 0
    IN  sortReady(SelectSeq(nodes, Left))

SanitizeAll(arr) == [i \in DOMAIN arr |-> sanitize(arr[i])]

topoSort(nodes) ==
    IF Len(nodes) = 0 THEN <<>>
    ELSE LET inDegree == TopoInDegree(nodes)
             done == TopoLoop(TopoChildren(nodes),
                              TopoInitialReady(nodes, inDegree), 0, inDegree, <<>>)
         IN  done.result \o SanitizeAll(TopoRemaining(nodes, done.inDegree))

emitSvjifIrArtifact(a) ==
    [irVersion |-> IR_VERSION,
     scene |-> a.scene,
     nodes |-> topoSort(a.nodes),
     bindings |-> a.bindings,
     animations |-> a.animations]

NoIr ==
    [irVersion |-> "", scene |-> <<>>, nodes |-> <<>>, bindings |-> <<>>,
     animations |-> <<>>]

\* The variables of compile and of the utilities while neither runs.
NoInput == [none |-> TRUE]
NoResult == [state |-> "pending"]
NoCompile ==
    /\ input = NoInput
    /\ artifacts = <<>>
    /\ returned = NoResult
    /\ trace = <<>>
    /\ revision = "only"
    /\ calls = <<>>
    /\ objects = <<>>
    /\ loop = <<>>

----------------------------------------------------------------------------
(* Inputs of the emitter *)

\* The longest node array of the ASTs that vary every field of a node.
MaxCross == 2

SceneOk == [id |-> "scene", width |-> Num(800), height |-> Num(600)]

SeqsUpTo(S, n) == UNION {[1..k -> S] : k \in 0..n}

AstOver(nodeSeqs) ==
    [scene : {SceneOk}, nodes : nodeSeqs, bindings : {<<>>}, animations : {<<>>}]

EmitKinds == {"Group", "Rect"}
EmitZIndexes == {NumUndefined, Num(1), PosInf}

\* As many ids as the longest node array has nodes: "a", "b", "c", ...
EmitIds == {StrOrder[8 + i] : i \in 1..MaxNodes}

\* Every field varies: any of three ids, any parent, kind and zIndex.
CrossIds == {"a", "b", "c"}
CrossNodes ==
    [id : CrossIds, kind : EmitKinds, parentId : CrossIds \cup {undefined},
     zIndex : EmitZIndexes, props : {<<>>}, sourceRef : {"L1"}]

\* Graph shapes: any id and any parent (none, itself, another node, an id
\* that no node has), also ids that occur twice.
TreeNodes ==
    [id : EmitIds, kind : {"Group"}, parentId : EmitIds \cup {undefined},
     zIndex : {NumUndefined}, props : {<<>>}, sourceRef : {"L1"}]

\* Orderings: root nodes of any id, kind and zIndex.
RootNodes ==
    [id : EmitIds, kind : EmitKinds, parentId : {undefined},
     zIndex : EmitZIndexes, props : {<<>>}, sourceRef : {"L1"}]

CrossAsts == AstOver(SeqsUpTo(CrossNodes, MaxCross))
TreeAsts == AstOver(SeqsUpTo(TreeNodes, MaxNodes))
RootAsts == AstOver(SeqsUpTo(RootNodes, MaxNodes))

InitEmit ==
    /\ \/ ast \in CrossAsts
       \/ ast \in TreeAsts
       \/ ast \in RootAsts
    /\ pc = "input"
    /\ diagnostics = <<>>
    /\ ir = NoIr
    /\ NoCompile

EmitIr ==
    /\ pc = "input"
    /\ ir' = emitSvjifIrArtifact(ast)
    /\ pc' = "emitted"
    /\ UNCHANGED <<ast, diagnostics, input, artifacts, returned, trace, revision,
                 calls, objects, loop>>

NextEmit == EmitIr

SpecEmit == InitEmit /\ [][NextEmit]_vars

\* Nodes as the parsers leave them: with no authoring field, with a
\* sourceRef, or with a sourceRef and the __typename of the GraphQL type.
Authorings ==
    {<<>>, [sourceRef |-> "L1"], [sourceRef |-> "L2", __typename |-> "Rect"]}

PlainNodes ==
    [id : {"a", "b"}, kind : {"Rect"}, parentId : {"a", undefined},
     zIndex : {NumUndefined}, props : {<<>>}]

Authored(node, authoring) == node @@ authoring

AuthoredNodes ==
    {Authored(n, authoring) : n \in PlainNodes, authoring \in Authorings}

AuthoredAsts == AstOver(SeqsUpTo(AuthoredNodes, MaxCross))

InitAuthored ==
    /\ ast \in AuthoredAsts
    /\ pc = "input"
    /\ diagnostics = <<>>
    /\ ir = NoIr
    /\ NoCompile

SpecAuthored == InitAuthored /\ [][NextEmit]_vars

----------------------------------------------------------------------------
(* The validator *)

VALID_NODE_KINDS == {"Rect", "Text", "Image", "Group", "Line", "Ellipse", "Path"}

\* REQUIRED_PROPS; a kind without an entry (Group, or an unknown kind) reads
\* as undefined and the node is skipped.
REQUIRED_PROPS ==
    [k \in {"Rect", "Text", "Image", "Ellipse", "Line", "Path"} |->
        CASE k = "Rect" -> <<"width", "height">>
          [] k = "Text" -> <<"content">>
          [] k = "Image" -> <<"src">>
          [] k = "Ellipse" -> <<"rx", "ry">>
          [] k = "Line" -> <<"x2", "y2">>
          [] k = "Path" -> <<"d">>]

Indices(arr) == [i \in DOMAIN arr |-> i]

\* The keys of a Map filled in node order: each id at its first occurrence.
MapKeyOrder(nodes) ==
    LET IsFirst(i) == \A j \in 1..(i - 1) : nodes[j].id # nodes[i].id
        firsts == SelectSeq(Indices(nodes), IsFirst)
    IN  [k \in DOMAIN firsts |-> nodes[firsts[k]].id]

\* An in-degree count that takes a node naming itself as parent for a root.
CycleInDegreeNoSelf(nodes) ==
    [id \in NodeIds(nodes) |->
        Cardinality({i \in DOMAIN nodes :
            /\ nodes[i].id = id
            /\ nodes[i].parentId # undefined
            /\ nodes[i].parentId # nodes[i].id
            /\ nodes[i].parentId \in NodeIds(nodes)})]

\* The in-degree map of detectCycles after its two for loops.
CycleInDegree(nodes) ==
    [id \in NodeIds(nodes) |->
        Cardinality({i \in DOMAIN nodes :
            /\ nodes[i].id = id
            /\ nodes[i].parentId # undefined
            /\ nodes[i].parentId \in NodeIds(nodes)})]

\* A children map that keeps each child id once, while the in-degree counts
\* every node.
CycleChildrenOnce(nodes) ==
    [id \in NodeIds(nodes) |->
        LET IsChildId(c) ==
                \E i \in DOMAIN nodes : nodes[i].id = c /\ nodes[i].parentId = id
        IN  SelectSeq(MapKeyOrder(nodes), IsChildId)]

\* The children map of detectCycles: parent id -> child ids, in node order.
CycleChildren(nodes) ==
    [id \in NodeIds(nodes) |->
        LET IsChild(n) == n.parentId # undefined /\ n.parentId = id
            ch == SelectSeq(nodes, IsChild)
        IN  [k \in DOMAIN ch |-> ch[k].id]]

\* The inner for loop of the Kahn pass: [inDegree, queue].
RECURSIVE CycleDecrement(_, _, _)
CycleDecrement(ch, inDegree, queue) ==
    IF ch = <<>> THEN [inDegree |-> inDegree, queue |-> queue]
    ELSE LET child == Head(ch)
             newDeg == inDegree[child] - 1
         IN  CycleDecrement(Tail(ch),
                            [inDegree EXCEPT ![child] = newDeg],
                            IF newDeg = 0 THEN Append(queue, child) ELSE queue)

\* The while loop of detectCycles: [inDegree, processed].
RECURSIVE CycleLoop(_, _, _, _, _)
CycleLoop(children, queue, qi, inDegree, processed) ==
    IF qi >= Len(queue) THEN [inDegree |-> inDegree, processed |-> processed]
    ELSE LET dec == CycleDecrement(children[queue[qi + 1]], inDegree, queue)
         IN  CycleLoop(children, dec.queue, qi + 1, dec.inDegree, processed + 1)

detectCycles(nodes) ==
    LET inDegree == CycleInDegree(nodes)
        keys == MapKeyOrder(nodes)
        IsZero(id) == inDegree[id] = 0
        done == CycleLoop(CycleChildren(nodes), SelectSeq(keys, IsZero), 0, inDegree, 0)
        IsLeft(id) == done.inDegree[id] > 0
    IN  IF done.processed = Len(nodes) THEN <<>>
        ELSE SelectSeq(keys, IsLeft)

E_SCENE_DIMENSIONS_INVALID == "SVJIF_E_SCENE_DIMENSIONS_INVALID"
E_NODE_KIND_INVALID == "SVJIF_E_NODE_KIND_INVALID"
E_NODE_DUPLICATE_ID == "SVJIF_E_NODE_DUPLICATE_ID"
E_PARENT_NOT_FOUND == "SVJIF_E_PARENT_NOT_FOUND"
E_BIND_TARGET_NOT_FOUND == "SVJIF_E_BIND_TARGET_NOT_FOUND"
E_REF_TARGET_NOT_FOUND == "SVJIF_E_REF_TARGET_NOT_FOUND"
E_CYCLE_DETECTED == "SVJIF_E_CYCLE_DETECTED"
E_PROP_REQUIRED_MISSING == "SVJIF_E_PROP_REQUIRED_MISSING"

Diag(code, details) == [code |-> code, severity |-> "error", details |-> details]

\* 1. sceneDimensions
CheckSceneDimensions(a) ==
    IF JsLeqZero(a.scene.width) \/ JsLeqZero(a.scene.height)
    THEN <<Diag(E_SCENE_DIMENSIONS_INVALID, <<>>)>>
    ELSE <<>>

\* 2. nodeKindValid
CheckNodeKinds(a) ==
    LET Bad(n) == n.kind \notin VALID_NODE_KINDS
        bad == SelectSeq(a.nodes, Bad)
    IN  [k \in DOMAIN bad |->
            Diag(E_NODE_KIND_INVALID, [nodeId |-> bad[k].id, kind |-> bad[k].kind])]

\* 3. duplicateId: a node whose id is already in idSet.
CheckDuplicateIds(a) ==
    LET Seen(i) == \E j \in 1..(i - 1) : a.nodes[j].id = a.nodes[i].id
        dup == SelectSeq(Indices(a.nodes), Seen)
    IN  [k \in DOMAIN dup |->
            Diag(E_NODE_DUPLICATE_ID, [nodeId |-> a.nodes[dup[k]].id])]

\* 4. danglingRef: parentId, then bindings, then animations.
CheckDanglingParents(a) ==
    LET Bad(n) == n.parentId # undefined /\ n.parentId \notin NodeIds(a.nodes)
        bad == SelectSeq(a.nodes, Bad)
    IN  [k \in DOMAIN bad |->
            Diag(E_PARENT_NOT_FOUND,
                 [nodeId |-> bad[k].id, parentId |-> bad[k].parentId])]

CheckDanglingBindings(a) ==
    LET Bad(b) == b.targetNodeId \notin NodeIds(a.nodes)
        bad == SelectSeq(a.bindings, Bad)
    IN  [k \in DOMAIN bad |->
            Diag(E_BIND_TARGET_NOT_FOUND,
                 [bindingId |-> bad[k].id, targetNodeId |-> bad[k].targetNodeId])]

\* A dangling animation reported under the binding's code.
CheckDanglingAnimationsAsBinding(a) ==
    LET Bad(x) == x.targetNodeId \notin NodeIds(a.nodes)
        bad == SelectSeq(a.animations, Bad)
    IN  [k \in DOMAIN bad |->
            Diag(E_BIND_TARGET_NOT_FOUND,
                 [bindingId |-> bad[k].id, targetNodeId |-> bad[k].targetNodeId])]

CheckDanglingAnimations(a) ==
    LET Bad(x) == x.targetNodeId \notin NodeIds(a.nodes)
        bad == SelectSeq(a.animations, Bad)
    IN  [k \in DOMAIN bad |->
            Diag(E_REF_TARGET_NOT_FOUND,
                 [refKind |-> "animation", animationId |-> bad[k].id,
                  targetNodeId |-> bad[k].targetNodeId])]

\* 5. cycleDetection
CheckCycles(a) ==
    LET cycleIds == detectCycles(a.nodes)
    IN  [k \in DOMAIN cycleIds |-> Diag(E_CYCLE_DETECTED, [nodeId |-> cycleIds[k]])]

\* A test that takes a present key for a set prop, whatever its value.
PropMissingAbsentOnly(node, prop) == prop \notin DOMAIN node.props

\* A required prop is missing when the key is absent or its value is
\* undefined or null.
PropMissing(node, prop) ==
    \/ prop \notin DOMAIN node.props
    \/ node.props[prop] = "undefined"
    \/ node.props[prop] = "null"

RECURSIVE RequiredPropsOfNode(_, _)
RequiredPropsOfNode(node, required) ==
    IF required = <<>> THEN <<>>
    ELSE (IF PropMissing(node, Head(required))
          THEN <<Diag(E_PROP_REQUIRED_MISSING,
                      [nodeId |-> node.id, kind |-> node.kind, prop |-> Head(required)])>>
          ELSE <<>>)
         \o RequiredPropsOfNode(node, Tail(required))

\* 6. requiredProps
RECURSIVE CheckRequiredProps(_)
CheckRequiredProps(nodes) ==
    IF nodes = <<>> THEN <<>>
    ELSE (IF Head(nodes).kind \in DOMAIN REQUIRED_PROPS
          THEN RequiredPropsOfNode(Head(nodes), REQUIRED_PROPS[Head(nodes).kind])
          ELSE <<>>)
         \o CheckRequiredProps(Tail(nodes))

Tier1(a) ==
    CheckSceneDimensions(a) \o CheckNodeKinds(a) \o CheckDuplicateIds(a)
    \o CheckDanglingParents(a) \o CheckDanglingBindings(a)
    \o CheckDanglingAnimations(a) \o CheckCycles(a)

\* A gate that always runs Tier 2.
Tier2GateOpen(tier1, tier2) == tier1 \o tier2

\* Tier 2 runs only when no Tier 1 diagnostic has severity error.
Tier2Gate(tier1, tier2) ==
    IF \E i \in DOMAIN tier1 : tier1[i].severity = "error"
    THEN tier1
    ELSE tier1 \o tier2

validateCanonicalAst(a) == Tier2Gate(Tier1(a), CheckRequiredProps(a.nodes))

----------------------------------------------------------------------------
(* Inputs of the validator *)

\* The longest binding array and animation array of an input AST.
MaxRefs == 2
\* The longest node array of the ASTs that vary kinds and props.
MaxPropNodes == 2

ValIds == {"a", "b", "c"}
PropValues == {"undefined", "null", "10"}

\* Every props object over the keys ks.
PropsOver(ks) == UNION {[S -> PropValues] : S \in SUBSET ks}

Range(seq) == {seq[i] : i \in DOMAIN seq}

NodeOf(id, kind, parentId, props) ==
    [id |-> id, kind |-> kind, parentId |-> parentId, zIndex |-> NumUndefined,
     props |-> props, sourceRef |-> "L1"]

\* Graph shapes: any id and parent, a Group or a Rect without its props.
GraphNodes ==
    {NodeOf(id, kind, parentId, <<>>) :
        id \in ValIds, kind \in {"Group", "Rect"}, parentId \in ValIds \cup {undefined}}

GraphAsts == AstOver(SeqsUpTo(GraphNodes, MaxNodes))

\* References: root nodes, bindings and animations that name any id.
RefNodes == {NodeOf(id, "Rect", undefined, <<>>) : id \in ValIds}
RefBindings ==
    [id : {"b1"}, targetNodeId : ValIds, targetProp : {"x"}, expression : {"0"}]
RefAnimations ==
    [id : {"a1"}, targetNodeId : ValIds, property : {"opacity"}]

RefAsts ==
    [scene : {SceneOk}, nodes : SeqsUpTo(RefNodes, MaxNodes),
     bindings : SeqsUpTo(RefBindings, MaxRefs),
     animations : SeqsUpTo(RefAnimations, MaxRefs)]

\* Kinds and props: the i-th node has the i-th id ("a", "b", ...), any kind
\* (Widget is not a kind) and any props object over the keys its kind requires.
AllKinds == VALID_NODE_KINDS \cup {"Widget"}
PropShapes ==
    UNION {{[kind |-> kind, props |-> props] :
                props \in PropsOver(IF kind \in DOMAIN REQUIRED_PROPS
                                    THEN Range(REQUIRED_PROPS[kind]) ELSE {})} :
           kind \in AllKinds}

PropNodesOf(shapes) ==
    [i \in DOMAIN shapes |->
        NodeOf(StrOrder[8 + i], shapes[i].kind, undefined, shapes[i].props)]

\* Scene dimensions: every pair of these numbers, with no node, a Rect
\* without its props or a complete Rect.
DimValues == {Num(-1), Num(0), Num(1), Num(800), NaN, PosInf, NegInf}
SceneNodeSeqs ==
    {<<>>, <<NodeOf("a", "Rect", undefined, <<>>)>>,
     <<NodeOf("a", "Rect", undefined, [p \in {"width", "height"} |-> "10"])>>}

SceneAsts ==
    [scene : [id : {"scene"}, width : DimValues, height : DimValues],
     nodes : SceneNodeSeqs, bindings : {<<>>}, animations : {<<>>}]

InitValidate ==
    /\ \/ ast \in GraphAsts
       \/ ast \in RefAsts
       \/ \E shapes \in SeqsUpTo(PropShapes, MaxPropNodes) :
              ast = [scene |-> SceneOk, nodes |-> PropNodesOf(shapes),
                     bindings |-> <<>>, animations |-> <<>>]
       \/ ast \in SceneAsts
    /\ pc = "input"
    /\ diagnostics = <<>>
    /\ ir = NoIr
    /\ NoCompile

Validate ==
    /\ pc = "input"
    /\ diagnostics' = validateCanonicalAst(ast)
    /\ pc' = "validated"
    /\ UNCHANGED <<ast, ir, input, artifacts, returned, trace, revision,
                 calls, objects, loop>>

NextValidate == Validate

SpecValidate == InitValidate /\ [][NextValidate]_vars

----------------------------------------------------------------------------
(* compile: parse, validate, emit *)

E_INPUT_EMPTY == "SVJIF_E_INPUT_EMPTY"
E_INPUT_INVALID_JSON == "SVJIF_E_INPUT_INVALID_JSON"
E_SCENE_MISSING == "SVJIF_E_SCENE_MISSING"
E_VERSION_UNSUPPORTED == "SVJIF_E_VERSION_UNSUPPORTED"
E_DIRECTIVE_ARG_MISSING == "SVJIF_E_DIRECTIVE_ARG_MISSING"
E_FEATURE_NOT_IMPLEMENTED == "SVJIF_E_FEATURE_NOT_IMPLEMENTED"
E_INTERNAL_INVARIANT == "SVJIF_E_INTERNAL_INVARIANT"
W_UNUSED_FIELD == "SVJIF_W_UNUSED_FIELD"
W_BINARY_PACK_NOT_IMPLEMENTED == "SVJIF_W_BINARY_PACK_NOT_IMPLEMENTED"

IR_ARTIFACT_KEY == "scene.svjif.json"
IR_RECEIPT_KEY == "scene.svjif.json.receipt"
TYPES_ARTIFACT_KEY == "types.ts"
COMPARATOR_VERSION == "1"
IR_HASH_ALG == "sha256"

VALIDATION_RULE_IDS ==
    <<"sceneDimensions", "nodeKindValid", "duplicateId", "danglingRef",
      "cycleDetection", "requiredProps">>

\* The canonicalAst of a compilation whose parser returned undefined.
NoAst == [missing |-> TRUE]

\* A diagnostic built from a ParseError or an InternalCompilerError.
ErrorDiag(code, message) == Diag(code, [message |-> message])

WarningDiag(code) == [code |-> code, severity |-> "warning", details |-> <<>>]

HasSeverity(diags, severity) ==
    \E i \in DOMAIN diags : diags[i].severity = severity

\* An option the caller may leave out is "unset"; mergeOptions then keeps
\* the default of DEFAULT_OPTIONS.
Flag(v, default) == IF v = "unset" THEN default ELSE v = "true"

mergeOptions(partial) ==
    [emit |-> [irJson |-> Flag(partial.emit.irJson, TRUE),
               tsTypes |-> Flag(partial.emit.tsTypes, TRUE),
               jsonSchema |-> Flag(partial.emit.jsonSchema, FALSE),
               binaryPack |-> Flag(partial.emit.binaryPack, FALSE)],
     failOnWarnings |-> Flag(partial.failOnWarnings, FALSE)]

(* The texts a compilation is given.  JSON.parse and the GraphQL adapter   *)
(* are tables from these texts to the values they denote: a value is      *)
(* either not an object, or an object with the fields that                *)
(* validateCanonicalAstShape reads and the AST it is cast to.             *)
RectNode(id, props) == NodeOf(id, "Rect", undefined, props)

DocAst(scene, nodes) ==
    [scene |-> scene, nodes |-> nodes, bindings |-> <<>>, animations |-> <<>>]

DocValue(kind, sceneShape, a) ==
    [json |-> "object", kind |-> kind, astVersion |-> "1",
     scene |-> sceneShape, nodesIsArray |-> TRUE, ast |-> a]

SizedProps == [p \in {"width", "height"} |-> "10"]

Sources ==
    {"   ", "{", "[]", "doc:group", "doc:strings", "doc:negative",
     "doc:unsized", "doc:one", "doc:two"}

IsBlank(source) == source = "   "

JsonParseThrows(source) == source = "{"

Denotes(source) ==
    CASE source = "doc:group" ->
             DocValue("Group", "numbers", DocAst(SceneOk, <<>>))
      [] source = "doc:strings" ->
             DocValue("Scene", "strings", DocAst(SceneOk, <<>>))
      [] source = "doc:negative" ->
             DocValue("Scene", "numbers",
                      DocAst([id |-> "scene", width |-> Num(-1),
                              height |-> Num(600)], <<>>))
      [] source = "doc:unsized" ->
             DocValue("Scene", "numbers",
                      DocAst(SceneOk, <<RectNode("a", <<>>)>>))
      [] source = "doc:one" ->
             DocValue("Scene", "numbers",
                      DocAst(SceneOk, <<RectNode("a", SizedProps)>>))
      [] source = "doc:two" ->
             DocValue("Scene", "numbers",
                      DocAst(SceneOk, <<RectNode("b", SizedProps),
                                        RectNode("a", SizedProps)>>))
      [] OTHER -> [json |-> "array"]

validateCanonicalAstShape(value) ==
    IF value.json # "object"
    THEN <<ErrorDiag(E_INTERNAL_INVARIANT, "Canonical AST must be an object")>>
    ELSE (IF value.kind # "Scene"
          THEN <<ErrorDiag(E_SCENE_MISSING, "kind must be Scene")>>
          ELSE <<>>)
         \o (IF value.astVersion # "1"
             THEN <<ErrorDiag(E_VERSION_UNSUPPORTED, "Unsupported astVersion")>>
             ELSE <<>>)
         \o (IF value.scene = "missing"
             THEN <<ErrorDiag(E_SCENE_MISSING, "scene object is missing")>>
             ELSE IF value.scene # "numbers"
                  THEN <<ErrorDiag(E_SCENE_DIMENSIONS_INVALID,
                                   "Scene width/height must be numbers")>>
                  ELSE <<>>)
         \o (IF ~value.nodesIsArray
             THEN <<ErrorDiag(E_INTERNAL_INVARIANT, "nodes must be an array")>>
             ELSE <<>>)

\* The tail of both parsers: the shape check decides whether the value is
\* returned as the AST.
Structural(value, pushed) ==
    LET structural == validateCanonicalAstShape(value)
    IN  [ast |-> IF HasSeverity(structural, "error") THEN NoAst ELSE value.ast,
         diagnostics |-> pushed \o structural]

ParseFailed(code, message) ==
    [ast |-> NoAst, diagnostics |-> <<ErrorDiag(code, message)>>]

\* A ParseError built with the hint option; toDiagnostic copies the hint.
\* A diagnostic built without the option has no hint.
HintedDiag(code, message, hint) ==
    [code |-> code, severity |-> "error", details |-> [message |-> message],
     hint |-> hint]

ParseFailedWithHint(code, message, hint) ==
    [ast |-> NoAst, diagnostics |-> <<HintedDiag(code, message, hint)>>]

\* A catch clause that reports the failure of JSON.parse as an internal
\* fault.
InvalidJsonAsInternal ==
    ParseFailed(E_INTERNAL_INVARIANT, "Invalid JSON")

\* The catch clause around JSON.parse.
InvalidJson ==
    ParseFailedWithHint(E_INPUT_INVALID_JSON, "Invalid JSON",
                        "Ensure the input is valid JSON.")

parseCanonicalAstJson(inp) ==
    IF IsBlank(inp.source)
    THEN ParseFailed(E_INPUT_EMPTY, "Input source is empty")
    ELSE IF JsonParseThrows(inp.source)
         THEN InvalidJson
         ELSE Structural(Denotes(inp.source), <<>>)

\* What the injected adapter pushes onto the shared diagnostics array
\* before it returns.
AdapterPushes(adapter) ==
    CASE adapter \in {"warns", "warnsThrows"} ->
             <<WarningDiag(W_UNUSED_FIELD)>>
      [] adapter = "reports" ->
             <<ErrorDiag(E_DIRECTIVE_ARG_MISSING, "directive argument")>>
      [] OTHER -> <<>>

\* if (!deps.graphqlToCanonicalAst): one diagnostic with a hint.
AdapterMissing ==
    ParseFailedWithHint(E_INTERNAL_INVARIANT,
                        "GraphQL parser adapter is not configured",
                        "Provide parseInput deps.graphqlToCanonicalAst")

\* The adapter throws, or returns a promise that rejects: the await in the
\* try turns both into the catch clause.
AdapterThrows(adapter) == adapter \in {"throws", "warnsThrows"}

\* The catch clause of parseGraphqlSdl: what the adapter pushed stays in
\* the shared array; the ParseError is built with cause and location only.
AdapterFailed(pushed) ==
    [ast |-> NoAst,
     diagnostics |-> pushed \o <<ErrorDiag(E_INTERNAL_INVARIANT,
                                            "Failed to parse GraphQL SDL")>>]

parseGraphqlSdl(inp) ==
    IF IsBlank(inp.source)
    THEN ParseFailed(E_INPUT_EMPTY, "Input source is empty")
    ELSE IF inp.adapter = "missing"
         THEN AdapterMissing
         ELSE IF AdapterThrows(inp.adapter)
              THEN AdapterFailed(AdapterPushes(inp.adapter))
              ELSE Structural(Denotes(inp.source), AdapterPushes(inp.adapter))

parseInputToCanonicalAst(inp) ==
    CASE inp.format = "canonical-ast-json" -> parseCanonicalAstJson(inp)
      [] inp.format = "graphql-sdl" -> parseGraphqlSdl(inp)
      [] OTHER -> ParseFailed(E_INTERNAL_INVARIANT, "Unsupported input format")

(* The receipt.  canonical/hashing is a SHA-256 of the text: a one-to-one *)
(* tag of what was hashed.                                                *)
hashString(text) == [sha256 |-> text]

\* Every validator rule id, in ascending code-unit order.
RuleIdOrder ==
    <<"cycleDetection", "danglingRef", "duplicateId", "nodeKindValid",
      "requiredProps", "sceneDimensions">>

RuleIdRank(s) == CHOOSE i \in DOMAIN RuleIdOrder : RuleIdOrder[i] = s

InsertByRank(sorted, x) ==
    LET k == Cardinality({i \in DOMAIN sorted :
                              RuleIdRank(sorted[i]) <= RuleIdRank(x)})
    IN  SubSeq(sorted, 1, k) \o <<x>> \o SubSeq(sorted, k + 1, Len(sorted))

RECURSIVE DefaultSort(_)
\* [...ruleIds].sort(): ascending by code unit.
DefaultSort(ids) ==
    IF ids = <<>> THEN <<>>
    ELSE InsertByRank(DefaultSort(SubSeq(ids, 1, Len(ids) - 1)), ids[Len(ids)])

RECURSIVE JoinLines(_)
\* ids.join('\n'): the ids with a line break between neighbours.
JoinLines(ids) ==
    IF Len(ids) <= 1 THEN ids
    ELSE <<ids[1], "\n">> \o JoinLines(Tail(ids))

\* The fingerprint taken over the ids as given, with no sort.
RulesetFingerprintUnsorted(ruleIds) == hashString(JoinLines(ruleIds))

RulesetFingerprint(ruleIds) == hashString(JoinLines(DefaultSort(ruleIds)))

emitReceiptArtifact(inp, irContent, ruleIds) ==
    [path |-> IR_RECEIPT_KEY,
     content |-> [comparatorVersion |-> COMPARATOR_VERSION,
                  inputHash |-> hashString(inp.source),
                  irHash |-> hashString(irContent),
                  irHashAlg |-> IR_HASH_ALG,
                  irVersion |-> IR_VERSION,
                  rulesetFingerprint |-> RulesetFingerprint(ruleIds)]]

\* The IR artifact: its content is the canonical text of the IR document.
IrArtifact(a) == [path |-> IR_ARTIFACT_KEY, content |-> emitSvjifIrArtifact(a)]

\* The type declarations are a function of the AST.
emitTypesArtifact(a) ==
    [path |-> TYPES_ARTIFACT_KEY, content |-> [declarationsOf |-> a.nodes]]

\* src/ keeps compile in two revisions: the file compile.ts and the first
\* function of part_011.
CompileRevisions == {"compile.ts", "part_011"}

finalize(rev, ok, a, arts) ==
    [state |-> "resolved", ok |-> ok, ast |-> a,
     irVersion |-> IF rev = "part_011"
                   THEN (IF IR_ARTIFACT_KEY \in DOMAIN arts
                         THEN IR_VERSION ELSE undefined)
                   ELSE (IF ok THEN IR_VERSION ELSE undefined)]

\* A compile with no catch clause: the fault rejects the promise.
CatchRethrows(rev, arts) == [state |-> "rejected"]

\* The catch clause of compile.
Catch(rev, arts) == finalize(rev, FALSE, NoAst, arts)

InternalDiag == ErrorDiag(E_INTERNAL_INVARIANT, "Unhandled compiler failure")

Thrown(rev, arts, diags, ran) ==
    [returned |-> Catch(rev, arts), artifacts |-> arts,
     diagnostics |-> diags \o <<InternalDiag>>, trace |-> ran \o <<"throw">>,
     done |-> TRUE]

Finished(rev, ok, a, arts, diags, ran) ==
    [returned |-> finalize(rev, ok, a, arts), artifacts |-> arts,
     diagnostics |-> diags, trace |-> ran, done |-> TRUE]

\* A compile that goes on to emit whatever the diagnostics say.
HardStopNever(diags) == FALSE

\* The hard stop on errors after validation.
HardStop(diags) == HasSeverity(diags, "error")

\* Phase 2 of compile: validation and the hard stop on errors.
ValidatePhase(inp, rev, a, diags, ran) ==
    LET ran1 == ran \o <<"validate">>
    IN  IF inp.fault = "validator" /\ a # NoAst
        THEN Thrown(rev, <<>>, diags, ran1)
        ELSE LET ds == diags \o (IF a = NoAst THEN <<>>
                                 ELSE validateCanonicalAst(a))
             IN  IF HardStop(ds)
                 THEN Finished(rev, FALSE, a, <<>>, ds, ran1)
                 ELSE [returned |-> NoResult, artifacts |-> <<>>,
                       diagnostics |-> ds, trace |-> ran1, done |-> FALSE]

FeatureDiag ==
    [code |-> E_FEATURE_NOT_IMPLEMENTED, severity |-> "error",
     details |-> [feature |-> "jsonSchema"]]

\* The guard in front of every emitter: part_011 has it, compile.ts has not.
JsonSchemaGuard(rev, opts) == rev = "part_011" /\ opts.emit.jsonSchema

SCHEMA_ARTIFACT_KEY == "scene.svjif.schema.json"

\* compile.ts stores a schema stub after the other emitters.
emitSchemaStub ==
    [path |-> SCHEMA_ARTIFACT_KEY,
     content |-> [title |-> "SVJif Scene IR v1", type |-> "object"]]

\* failOnWarnings ignored: ok stays true.
FailOnWarningsIgnored(opts, diags) == FALSE

FailOnWarnings(opts, diags) ==
    opts.failOnWarnings /\ HasSeverity(diags, "warning")

\* The emitters of phase 3 work on the artifacts stored so far, the phases
\* run so far, and whether one of them threw.
StartEmit(ran) == [artifacts |-> <<>>, trace |-> ran, threw |-> FALSE]

EmitThrew(run, step) ==
    [run EXCEPT !.trace = @ \o <<step>>, !.threw = TRUE]

EmitStored(run, step, key, artifact) ==
    [run EXCEPT !.trace = @ \o <<step>>, !.artifacts = @ @@ (key :> artifact)]

\* artifacts[IR_RECEIPT_KEY] = emitReceiptArtifact(input, irContent, ...)
EmitReceiptStep(inp, run) ==
    IF inp.fault = "emitReceipt" THEN EmitThrew(run, "emitReceipt")
    ELSE EmitStored(run, "emitReceipt", IR_RECEIPT_KEY,
                    emitReceiptArtifact(inp,
                                        run.artifacts[IR_ARTIFACT_KEY].content,
                                        VALIDATION_RULE_IDS))

\* if (options.emit.irJson && canonicalAst) { ... }
EmitIrStep(inp, opts, a, run) ==
    IF ~(opts.emit.irJson /\ a # NoAst) THEN run
    ELSE IF inp.fault = "emitIr" THEN EmitThrew(run, "emitIr")
    ELSE EmitReceiptStep(inp, EmitStored(run, "emitIr", IR_ARTIFACT_KEY,
                                         IrArtifact(a)))

\* if (options.emit.tsTypes && canonicalAst) { ... }
EmitTypesStep(inp, opts, a, run) ==
    IF run.threw \/ ~(opts.emit.tsTypes /\ a # NoAst) THEN run
    ELSE IF inp.fault = "emitTypes" THEN EmitThrew(run, "emitTypes")
    ELSE EmitStored(run, "emitTypes", TYPES_ARTIFACT_KEY, emitTypesArtifact(a))

\* compile.ts only: if (options.emit.jsonSchema) { ... }
EmitSchemaStep(rev, opts, run) ==
    IF run.threw \/ ~(rev = "compile.ts" /\ opts.emit.jsonSchema) THEN run
    ELSE EmitStored(run, "emitSchemaStub", SCHEMA_ARTIFACT_KEY, emitSchemaStub)

\* if (options.emit.binaryPack) { diagnostics.push(...) }
BinaryPackStep(opts, diags) ==
    IF opts.emit.binaryPack
    THEN diags \o <<WarningDiag(W_BINARY_PACK_NOT_IMPLEMENTED)>>
    ELSE diags

\* The failOnWarnings test and the two returns behind it.
Settle(rev, opts, a, run, diags) ==
    Finished(rev, ~FailOnWarnings(opts, diags), a, run.artifacts, diags,
             run.trace)

\* The end of phase 3: the catch clause when an emitter threw, else the
\* binaryPack warning and failOnWarnings.
EmitEnd(rev, opts, a, diags, run) ==
    IF run.threw THEN Thrown(rev, run.artifacts, diags, run.trace)
    ELSE Settle(rev, opts, a, run, BinaryPackStep(opts, diags))

\* Phase 3 of compile: the guard, the emitters in order, the binaryPack
\* warning, failOnWarnings, and the catch clause for an emitter that throws.
EmitPhase(inp, rev, opts, a, diags, ran) ==
    IF JsonSchemaGuard(rev, opts)
    THEN Finished(rev, FALSE, a, <<>>, diags \o <<FeatureDiag>>,
                  ran \o <<"emit">>)
    ELSE EmitEnd(rev, opts, a, diags,
             EmitSchemaStep(rev, opts,
                 EmitTypesStep(inp, opts, a,
                     EmitIrStep(inp, opts, a, StartEmit(ran \o <<"emit">>)))))

\* compile as a function of its input: the three phases in order.
compileRun(inp, rev) ==
    LET p == parseInputToCanonicalAst(inp)
        v == ValidatePhase(inp, rev, p.ast, p.diagnostics, <<"parse">>)
    IN  IF v.done THEN v
        ELSE EmitPhase(inp, rev, mergeOptions(inp.options), p.ast,
                       v.diagnostics, v.trace)

----------------------------------------------------------------------------
(* Inputs and steps of compile *)

Tri == {"unset", "true", "false"}
Formats == {"canonical-ast-json", "graphql-sdl", "yaml"}
Adapters ==
    {"missing", "throws", "warnsThrows", "returns", "warns", "reports"}
Faults == {"none", "validator", "emitIr", "emitReceipt", "emitTypes"}

EmitFlags == {"irJson", "tsTypes", "jsonSchema", "binaryPack"}

\* options.emit names every flag, one flag or none.
EmitOptionSets ==
    {e \in [EmitFlags -> Tri] :
         Cardinality({f \in EmitFlags : e[f] # "unset"}) \in {0, 1, 4}}

CompileOptionSets == [emit : EmitOptionSets, failOnWarnings : Tri]

CompilerInputs(formats, adapters) ==
    [format : formats, source : Sources, adapter : adapters, fault : Faults,
     options : CompileOptionSets]

\* deps.graphqlParser is read for the graphql-sdl format only.
InitCompile ==
    /\ \/ input \in CompilerInputs(Formats \ {"graphql-sdl"}, {"missing"})
       \/ input \in CompilerInputs({"graphql-sdl"}, Adapters)
    /\ pc = "compile"
    /\ ast = NoAst
    /\ diagnostics = <<>>
    /\ ir = NoIr
    /\ artifacts = <<>>
    /\ returned = NoResult
    /\ trace = <<>>
    /\ revision \in CompileRevisions
    /\ calls = <<>>
    /\ objects = <<>>
    /\ loop = <<>>

CompileParse ==
    /\ pc = "compile"
    /\ LET p == parseInputToCanonicalAst(input)
       IN  /\ ast' = p.ast
           /\ diagnostics' = diagnostics \o p.diagnostics
    /\ trace' = trace \o <<"parse">>
    /\ pc' = "parsed"
    /\ UNCHANGED <<ir, input, artifacts, returned, revision,
                 calls, objects, loop>>

CompileValidate ==
    /\ pc = "parsed"
    /\ LET v == ValidatePhase(input, revision, ast, diagnostics, trace)
       IN  /\ diagnostics' = v.diagnostics
           /\ trace' = v.trace
           /\ returned' = v.returned
           /\ pc' = IF v.done THEN "done" ELSE "validated"
    /\ UNCHANGED <<ast, ir, input, artifacts, revision,
                 calls, objects, loop>>

CompileEmit ==
    /\ pc = "validated"
    /\ LET e == EmitPhase(input, revision, mergeOptions(input.options), ast,
                          diagnostics, trace)
       IN  /\ artifacts' = e.artifacts
           /\ diagnostics' = e.diagnostics
           /\ trace' = e.trace
           /\ returned' = e.returned
           /\ ir' = IF IR_ARTIFACT_KEY \in DOMAIN e.artifacts
                    THEN e.artifacts[IR_ARTIFACT_KEY].content ELSE ir
    /\ pc' = "done"
    /\ UNCHANGED <<ast, input, revision,
                 calls, objects, loop>>

NextCompile == CompileParse \/ CompileValidate \/ CompileEmit

SpecCompile == InitCompile /\ [][NextCompile]_vars

----------------------------------------------------------------------------
(* stableStringify *)

(* A JavaScript value is a primitive with its JSON literal, one of the     *)
(* kinds JSON cannot represent, or a reference into a heap of cells.  A   *)
(* cell is a plain object (its own enumerable keys in insertion order), an*)
(* array, or an object with a toJSON method and the value it returns.     *)
Prim(lit) == [t |-> "prim", v |-> lit]
JsNull == Prim("null")
JsUndefined == [t |-> "undefined"]
JsFunction == [t |-> "function"]
JsSymbol == [t |-> "symbol"]
JsBigInt == [t |-> "bigint"]
Ref(a) == [t |-> "ref", a |-> a]

ObjectCell(entries) == [kind |-> "object", entries |-> entries]
ArrayCell(elems) == [kind |-> "array", elems |-> elems]
ToJsonCell(v) == [kind |-> "toJSON", returns |-> v]

\* v === undefined || typeof v === 'function' || typeof v === 'symbol'
Unrepresentable(v) == v.t \in {"undefined", "function", "symbol"}

\* The keys of the model in ascending code-unit order.
KeyOrder == <<"10", "9", "a", "b">>

KeyRank(k) == CHOOSE i \in DOMAIN KeyOrder : KeyOrder[i] = k

\* A key that is a canonical array index, and the integer it denotes.
IsIndexKey(k) == k \in {"9", "10"}
IndexOfKey(k) == IF k = "9" THEN 9 ELSE 10

InsertKey(sorted, k) ==
    LET n == Cardinality({i \in DOMAIN sorted : KeyRank(sorted[i]) <= KeyRank(k)})
    IN  SubSeq(sorted, 1, n) \o <<k>> \o SubSeq(sorted, n + 1, Len(sorted))

RECURSIVE SortKeys(_)
\* Object.keys(obj).sort((a, b) => (a < b ? -1 : a > b ? 1 : 0))
SortKeys(keys) ==
    IF keys = <<>> THEN <<>>
    ELSE InsertKey(SortKeys(SubSeq(keys, 1, Len(keys) - 1)), keys[Len(keys)])

InsertIndexKey(sorted, k) ==
    LET n == Cardinality({i \in DOMAIN sorted :
                              IndexOfKey(sorted[i]) <= IndexOfKey(k)})
    IN  SubSeq(sorted, 1, n) \o <<k>> \o SubSeq(sorted, n + 1, Len(sorted))

RECURSIVE SortIndexKeys(_)
SortIndexKeys(keys) ==
    IF keys = <<>> THEN <<>>
    ELSE InsertIndexKey(SortIndexKeys(SubSeq(keys, 1, Len(keys) - 1)),
                        keys[Len(keys)])

\* The order in which JSON.stringify walks the own keys of an object whose
\* keys were created in the order given: the array indices in ascending
\* numeric order, then the other keys in creation order.
OwnPropertyKeys(keys) ==
    SortIndexKeys(SelectSeq(keys, IsIndexKey))
        \o SelectSeq(keys, LAMBDA k : ~IsIndexKey(k))

KeysOf(entries) == [i \in DOMAIN entries |-> entries[i].k]

ValueAt(entries, key) ==
    entries[CHOOSE i \in DOMAIN entries : entries[i].k = key].v

Returned(v) == [t |-> "ok", v |-> v]
Throws(error) == [t |-> "throw", error |-> error]

CIRCULAR == "TypeError: Converting circular structure to JSON"
BIGINT == "TypeError: Do not know how to serialize a BigInt"
STACK == "RangeError: Maximum call stack size exceeded"

\* The outcome of a loop over outcomes: the first throw, or all values.
FirstThrow(rs) == rs[CHOOSE i \in DOMAIN rs :
                        /\ rs[i].t = "throw"
                        /\ \A j \in 1..(i - 1) : rs[j].t = "ok"]

AnyThrow(rs) == \E i \in DOMAIN rs : rs[i].t = "throw"

RECURSIVE normalize(_, _, _, _)
(* normalize(value, seen) over the heap.  seen holds the plain objects    *)
(* between the root and value: each is added on entry and deleted on      *)
(* return.  depth counts the frames left on the call stack; a recursion   *)
(* that uses them up ends in the engine's RangeError.                     *)
normalize(heap, value, seen, depth) ==
    IF depth = 0 THEN Throws(STACK)
    ELSE IF value.t = "prim" THEN Returned(value)
    ELSE IF Unrepresentable(value) THEN Returned(JsNull)
    ELSE IF value.t = "bigint" THEN Throws(BIGINT)
    ELSE
    LET cell == heap[value.a]
    IN  IF cell.kind = "toJSON"
        THEN normalize(heap, cell.returns, seen, depth - 1)
        ELSE IF cell.kind = "array"
        THEN LET rs == [i \in DOMAIN cell.elems |->
                            IF Unrepresentable(cell.elems[i])
                            THEN Returned(JsNull)
                            ELSE normalize(heap, cell.elems[i], seen, depth - 1)]
             IN  IF AnyThrow(rs) THEN FirstThrow(rs)
                 ELSE Returned([t |-> "array",
                                elems |-> [i \in DOMAIN rs |-> rs[i].v]])
        ELSE IF value.a \in seen THEN Throws(CIRCULAR)
        ELSE LET keys == SortKeys(KeysOf(cell.entries))
                 kept == SelectSeq(keys, LAMBDA k :
                             ~Unrepresentable(ValueAt(cell.entries, k)))
                 rs == [i \in DOMAIN kept |->
                            normalize(heap, ValueAt(cell.entries, kept[i]),
                                      seen \cup {value.a}, depth - 1)]
                 out == OwnPropertyKeys(kept)
             IN  IF AnyThrow(rs) THEN FirstThrow(rs)
                 ELSE Returned(
                          [t |-> "object",
                           entries |->
                               [i \in DOMAIN out |->
                                    [k |-> out[i],
                                     v |-> rs[CHOOSE j \in DOMAIN kept :
                                                  kept[j] = out[i]].v]]])

RECURSIVE JoinTexts(_)
\* texts joined with commas
JoinTexts(texts) ==
    IF texts = <<>> THEN <<>>
    ELSE IF Len(texts) = 1 THEN texts[1]
    ELSE texts[1] \o <<",">> \o JoinTexts(Tail(texts))

RECURSIVE JSONstringify(_)
\* JSON.stringify of a normalized value: the text as its tokens in order.
JSONstringify(tree) ==
    IF tree.t = "prim" THEN <<tree.v>>
    ELSE IF tree.t = "array"
    THEN <<"[">> \o JoinTexts([i \in DOMAIN tree.elems |->
                                  JSONstringify(tree.elems[i])]) \o <<"]">>
    ELSE <<"{">> \o JoinTexts([i \in DOMAIN tree.entries |->
                                  <<tree.entries[i].k, ":">>
                                      \o JSONstringify(tree.entries[i].v)])
              \o <<"}">>

\* The frames of the call stack: more than the deepest value without a
\* cycle needs.
StackLimit == 6

stableStringify(heap, value) ==
    LET normalized == normalize(heap, value, {}, StackLimit)
    IN  IF normalized.t = "throw"
        THEN [state |-> "threw", error |-> normalized.error]
        ELSE [state |-> "returned", text |-> JSONstringify(normalized.v)]

----------------------------------------------------------------------------
(* Inputs of stableStringify *)

\* The most own keys of an object and the most elements of an array.
MaxKeys == 2

\* The cells of a heap whose references may form any graph.
MaxObjs == 2

Keys == {KeyOrder[i] : i \in DOMAIN KeyOrder}

DistinctKeys(entries) ==
    \A i, j \in DOMAIN entries : entries[i].k = entries[j].k => i = j

EntrySeqs(keys, values, n) ==
    {e \in SeqsUpTo([k : keys, v : values], n) : DistinctKeys(e)}

ObjectCells(keys, values, n) ==
    {ObjectCell(e) : e \in EntrySeqs(keys, values, n)}

ArrayCells(values, n) == {ArrayCell(e) : e \in SeqsUpTo(values, n)}

\* Key order: a root object or array over every key, holding primitives
\* and one nested object or array.
KeyRootCells ==
    ObjectCells(Keys, {Prim("1"), Ref(2)}, MaxKeys)
        \cup ArrayCells({Prim("1"), Prim("2"), Ref(2)}, MaxKeys)

KeyInnerCells ==
    ObjectCells(Keys, {Prim("1")}, MaxKeys)
        \cup ArrayCells({Prim("1"), Prim("2")}, MaxKeys)

\* Reference graphs: every cell is an object, an array or a toJSON object
\* holding a primitive or a reference to any cell, itself included.
GraphValues == {Prim("1")} \cup {Ref(a) : a \in 1..MaxObjs}

GraphCells ==
    {ObjectCell(<<[k |-> "a", v |-> v]>>) : v \in GraphValues}
        \cup {ObjectCell(<<[k |-> "a", v |-> v], [k |-> "b", v |-> w]>>) :
                  v \in GraphValues, w \in GraphValues}
        \cup {ArrayCell(<<v>>) : v \in GraphValues}
        \cup {ArrayCell(<<v, w>>) : v \in GraphValues, w \in GraphValues}
        \cup {ToJsonCell(v) : v \in GraphValues}

\* Members JSON cannot represent: a root object or array holding them
\* directly or behind a toJSON conversion, and a toJSON conversion that
\* returns an object or array holding them.
AbsentValues == {JsUndefined, JsFunction, JsSymbol}

AbsentRootCells ==
    ObjectCells({"a", "b"}, {Prim("1"), Ref(2)} \cup AbsentValues, MaxKeys)
        \cup ArrayCells({Prim("1"), Ref(2)} \cup AbsentValues, MaxKeys)

AbsentConversions ==
    {ToJsonCell(v) : v \in {Prim("1"), Ref(3)} \cup AbsentValues}

AbsentInnerCells ==
    {ObjectCell(<<[k |-> "a", v |-> JsUndefined], [k |-> "b", v |-> Prim("1")]>>),
     ObjectCell(<<[k |-> "a", v |-> JsFunction]>>),
     ArrayCell(<<JsSymbol, Prim("1")>>)}

InitStringify ==
    /\ \/ \E root \in KeyRootCells, inner \in KeyInnerCells :
              input = [heap |-> <<root, inner>>, value |-> Ref(1)]
       \/ \E heap \in [1..MaxObjs -> GraphCells] :
              input = [heap |-> heap, value |-> Ref(1)]
       \/ \E root \in AbsentRootCells, conv \in AbsentConversions,
             inner \in AbsentInnerCells :
              input = [heap |-> <<root, conv, inner>>, value |-> Ref(1)]
    /\ pc = "stringify"
    /\ ast = NoAst
    /\ diagnostics = <<>>
    /\ ir = NoIr
    /\ artifacts = <<>>
    /\ returned = NoResult
    /\ trace = <<>>
    /\ revision = "only"
    /\ calls = <<>>
    /\ objects = <<>>
    /\ loop = <<>>

Stringify ==
    /\ pc = "stringify"
    /\ returned' = stableStringify(input.heap, input.value)
    /\ pc' = "stringified"
    /\ UNCHANGED <<ast, diagnostics, ir, input, artifacts, trace, revision,
                 calls, objects, loop>>

NextStringify == Stringify

SpecStringify == InitStringify /\ [][NextStringify]_vars

----------------------------------------------------------------------------
(* identifiers.ts: toTypeIdentifier and buildIdentifierMap *)

\* A string is the sequence of its characters.  CodeUnit gives the UTF-16
\* code unit of each character the sources below are written with.

FULLWIDTH_A == "U+FF21"

\* A letter with an accent: NFKC keeps it and it is no identifier character.
E_ACUTE == "U+00E9"

CodeUnit ==
    (" " :> 32) @@ ("$" :> 36) @@ ("-" :> 45) @@ ("0" :> 48) @@ ("1" :> 49)
    @@ ("2" :> 50) @@ ("3" :> 51) @@ ("4" :> 52) @@ ("5" :> 53)
    @@ ("6" :> 54) @@ ("7" :> 55) @@ ("8" :> 56) @@ ("9" :> 57)
    @@ ("A" :> 65) @@ ("B" :> 66) @@ ("C" :> 67) @@ ("D" :> 68)
    @@ ("E" :> 69) @@ ("F" :> 70) @@ ("G" :> 71) @@ ("H" :> 72)
    @@ ("I" :> 73) @@ ("J" :> 74) @@ ("K" :> 75) @@ ("L" :> 76)
    @@ ("M" :> 77) @@ ("N" :> 78) @@ ("O" :> 79) @@ ("P" :> 80)
    @@ ("Q" :> 81) @@ ("R" :> 82) @@ ("S" :> 83) @@ ("T" :> 84)
    @@ ("U" :> 85) @@ ("V" :> 86) @@ ("W" :> 87) @@ ("X" :> 88)
    @@ ("Y" :> 89) @@ ("Z" :> 90) @@ ("_" :> 95) @@ ("a" :> 97)
    @@ ("b" :> 98) @@ ("c" :> 99) @@ ("d" :> 100) @@ ("e" :> 101)
    @@ ("f" :> 102) @@ ("g" :> 103) @@ ("h" :> 104) @@ ("i" :> 105)
    @@ ("j" :> 106) @@ ("k" :> 107) @@ ("l" :> 108) @@ ("m" :> 109)
    @@ ("n" :> 110) @@ ("o" :> 111) @@ ("p" :> 112) @@ ("q" :> 113)
    @@ ("r" :> 114) @@ ("s" :> 115) @@ ("t" :> 116) @@ ("u" :> 117)
    @@ ("v" :> 118) @@ ("w" :> 119) @@ ("x" :> 120) @@ ("y" :> 121)
    @@ ("z" :> 122) @@ (E_ACUTE :> 233) @@ (FULLWIDTH_A :> 65313)

Chars == DOMAIN CodeUnit

IsUpper(c) == CodeUnit[c] \in 65..90

IsLower(c) == CodeUnit[c] \in 97..122

IsDigit(c) == CodeUnit[c] \in 48..57

CharAt(u) == CHOOSE c \in Chars : CodeUnit[c] = u

\* String.prototype.normalize('NFKC'), one character at a time: the
\* fullwidth letter folds to its ASCII letter, ASCII is left as it is.
NFKC(c) == IF c = FULLWIDTH_A THEN "A" ELSE c

toUpperCase(c) == IF IsLower(c) THEN CharAt(CodeUnit[c] - 32) ELSE c

toLowerCase(c) == IF IsUpper(c) THEN CharAt(CodeUnit[c] + 32) ELSE c

DEFAULT_OPTS ==
    [invalidStartPrefix |-> <<"N">>,
     reservedPrefix |-> <<"K", "w">>,
     emptyFallback |-> <<"A", "n", "o", "n", "y", "m", "o", "u", "s">>]

RESERVED ==
    { <<"b", "r", "e", "a", "k">>, <<"c", "a", "s", "e">>,
      <<"c", "a", "t", "c", "h">>, <<"c", "l", "a", "s", "s">>,
      <<"c", "o", "n", "s", "t">>,
      <<"c", "o", "n", "t", "i", "n", "u", "e">>,
      <<"d", "e", "b", "u", "g", "g", "e", "r">>,
      <<"d", "e", "f", "a", "u", "l", "t">>,
      <<"d", "e", "l", "e", "t", "e">>, <<"d", "o">>, <<"e", "l", "s", "e">>,
      <<"e", "n", "u", "m">>, <<"e", "x", "p", "o", "r", "t">>,
      <<"e", "x", "t", "e", "n", "d", "s">>, <<"f", "a", "l", "s", "e">>,
      <<"f", "i", "n", "a", "l", "l", "y">>, <<"f", "o", "r">>,
      <<"f", "u", "n", "c", "t", "i", "o", "n">>, <<"i", "f">>,
      <<"i", "m", "p", "o", "r", "t">>, <<"i", "n">>,
      <<"i", "n", "s", "t", "a", "n", "c", "e", "o", "f">>,
      <<"l", "e", "t">>, <<"n", "e", "w">>, <<"n", "u", "l", "l">>,
      <<"r", "e", "t", "u", "r", "n">>, <<"s", "t", "a", "t", "i", "c">>,
      <<"s", "u", "p", "e", "r">>, <<"s", "w", "i", "t", "c", "h">>,
      <<"t", "h", "i", "s">>, <<"t", "h", "r", "o", "w">>,
      <<"t", "r", "u", "e">>, <<"t", "r", "y">>, <<"t", "y", "p", "e">>,
      <<"t", "y", "p", "e", "o", "f">>, <<"v", "a", "r">>,
      <<"v", "o", "i", "d">>, <<"w", "h", "i", "l", "e">>,
      <<"w", "i", "t", "h">>, <<"y", "i", "e", "l", "d">>,
      <<"a", "s", "y", "n", "c">>, <<"a", "w", "a", "i", "t">>, <<"o", "f">>,
      <<"a", "b", "s", "t", "r", "a", "c", "t">>, <<"a", "s">>,
      <<"a", "s", "s", "e", "r", "t", "s">>, <<"a", "n", "y">>,
      <<"b", "o", "o", "l", "e", "a", "n">>,
      <<"c", "o", "n", "s", "t", "r", "u", "c", "t", "o", "r">>,
      <<"d", "e", "c", "l", "a", "r", "e">>, <<"g", "e", "t">>,
      <<"i", "n", "f", "e", "r">>,
      <<"i", "n", "t", "e", "r", "f", "a", "c", "e">>, <<"i", "s">>,
      <<"k", "e", "y", "o", "f">>, <<"m", "o", "d", "u", "l", "e">>,
      <<"n", "a", "m", "e", "s", "p", "a", "c", "e">>,
      <<"n", "e", "v", "e", "r">>, <<"n", "u", "m", "b", "e", "r">>,
      <<"o", "b", "j", "e", "c", "t">>,
      <<"o", "v", "e", "r", "r", "i", "d", "e">>,
      <<"p", "r", "i", "v", "a", "t", "e">>,
      <<"p", "r", "o", "t", "e", "c", "t", "e", "d">>,
      <<"p", "u", "b", "l", "i", "c">>,
      <<"r", "e", "a", "d", "o", "n", "l", "y">>,
      <<"r", "e", "q", "u", "i", "r", "e">>, <<"s", "e", "t">>,
      <<"s", "t", "r", "i", "n", "g">>, <<"s", "y", "m", "b", "o", "l">>,
      <<"u", "n", "d", "e", "f", "i", "n", "e", "d">>,
      <<"u", "n", "i", "q", "u", "e">>,
      <<"u", "n", "k", "n", "o", "w", "n">>, <<"f", "r", "o", "m">>,
      <<"g", "l", "o", "b", "a", "l">>, <<"b", "i", "g", "i", "n", "t">>,
      <<"i", "n", "t", "r", "i", "n", "s", "i", "c">>,
      <<"s", "a", "t", "i", "s", "f", "i", "e", "s">>,
      <<"a", "c", "c", "e", "s", "s", "o", "r">>,
      <<"u", "s", "i", "n", "g">> }

RECURSIVE StrLess(_, _)
\* a < b on strings: by code unit, a proper prefix first.
StrLess(a, b) ==
    IF b = <<>> THEN FALSE
    ELSE IF a = <<>> THEN TRUE
    ELSE IF CodeUnit[a[1]] # CodeUnit[b[1]]
         THEN CodeUnit[a[1]] < CodeUnit[b[1]]
         ELSE StrLess(Tail(a), Tail(b))

\* cmpStr on strings written out as character sequences
cmpStrSeq(a, b) ==
    IF StrLess(a, b) THEN -1 ELSE IF StrLess(b, a) THEN 1 ELSE 0

\* A start test that lets a digit through.
IdentStartOrDigit(c) ==
    IsUpper(c) \/ IsLower(c) \/ IsDigit(c) \/ c \in {"_", "$"}

\* [A-Za-z_$]
IDENT_START_RE(c) == IsUpper(c) \/ IsLower(c) \/ c \in {"_", "$"}

\* a character outside [^A-Za-z0-9_$]
IsIdentChar(c) == IDENT_START_RE(c) \/ IsDigit(c)

RECURSIVE SplitLoop(_, _, _)
\* split(NON_IDENT_RE) followed by the filter that drops empty segments
SplitLoop(text, segment, segments) ==
    LET closed == IF segment = <<>> THEN segments
                  ELSE Append(segments, segment)
    IN  IF text = <<>> THEN closed
        ELSE IF IsIdentChar(text[1])
             THEN SplitLoop(Tail(text), Append(segment, text[1]), segments)
             ELSE SplitLoop(Tail(text), <<>>, closed)

PascalCase(s) == <<toUpperCase(s[1])>> \o Tail(s)

RECURSIVE JoinStrings(_)
JoinStrings(segments) ==
    IF segments = <<>> THEN <<>>
    ELSE segments[1] \o JoinStrings(Tail(segments))

\* The reserved-word test: the first revision looks the result up as it is,
\* the second also looks up its lower-case form.
IsReserved(result, rev) ==
    \/ result \in RESERVED
    \/ /\ rev = "identifiers.ts:222"
       /\ [i \in 1..Len(result) |-> toLowerCase(result[i])] \in RESERVED

toTypeIdentifier(source, rev) ==
    LET normalized == [i \in 1..Len(source) |-> NFKC(source[i])]
        split == SplitLoop(normalized, <<>>, <<>>)
        segments == [i \in 1..Len(split) |-> PascalCase(split[i])]
        result == JoinStrings(segments)
        started == IF IDENT_START_RE(result[1]) THEN result
                   ELSE DEFAULT_OPTS.invalidStartPrefix \o result
    IN  IF Len(result) = 0 THEN DEFAULT_OPTS.emptyFallback
        ELSE IF IsReserved(started, rev)
             THEN DEFAULT_OPTS.reservedPrefix \o started
             ELSE started

\* A Map: its entries in insertion order; set on a key it holds replaces
\* the value and keeps the place.
MapHas(map, key) == \E i \in 1..Len(map) : map[i].key = key

MapGet(map, key) ==
    map[CHOOSE i \in 1..Len(map) : map[i].key = key].value

MapSet(map, key, value) ==
    IF MapHas(map, key)
    THEN [i \in 1..Len(map) |->
              IF map[i].key = key THEN [key |-> key, value |-> value]
              ELSE map[i]]
    ELSE Append(map, [key |-> key, value |-> value])

MapKeys(map) == [i \in 1..Len(map) |-> map[i].key]

\* new Set(sources).size
SetSize(sources) == Cardinality({sources[i] : i \in 1..Len(sources)})

RECURSIVE InsertIndex(_, _, _)
\* Array.prototype.sort is stable: an index goes behind every index whose
\* source does not compare greater.
InsertIndex(sorted, idx, sources) ==
    IF sorted = <<>> THEN <<idx>>
    ELSE IF cmpStrSeq(sources[idx], sources[sorted[1]]) < 0
         THEN <<idx>> \o sorted
         ELSE <<sorted[1]>> \o InsertIndex(Tail(sorted), idx, sources)

RECURSIVE SortLoop(_, _, _)
SortLoop(sources, i, sorted) ==
    IF i > Len(sources) THEN sorted
    ELSE SortLoop(sources, i + 1, InsertIndex(sorted, i, sources))

\* A collision resolution that walks the sources in input order.
InputOrderIndices(sources) == [i \in 1..Len(sources) |-> i]

\* sources.map((_, i) => i).sort((a, b) => cmpStr(sources[a], sources[b]))
sortedIndices(sources) == SortLoop(sources, 1, <<>>)

RECURSIVE Decimal(_)
\* the decimal digits of a positive count
Decimal(n) ==
    IF n < 10 THEN <<CharAt(48 + n)>>
    ELSE Decimal(n \div 10) \o <<CharAt(48 + (n % 10))>>

Suffixed(ident, count) ==
    IF count > 0 THEN ident \o <<"_", "_">> \o Decimal(count + 1) ELSE ident

UsedGet(used, ident) == IF ident \in DOMAIN used THEN used[ident] ELSE 0

UsedSet(used, ident, count) ==
    [k \in DOMAIN used \cup {ident} |-> IF k = ident THEN count ELSE used[k]]

RECURSIVE AssignLoop(_, _, _, _, _, _)
\* The loop over the sorted sources: the identifier given to each position
\* of order, as a Map from the position's source (the second revision's
\* sortedMap) and as the array of the first revision.
AssignLoop(sources, rev, order, k, used, acc) ==
    IF k > Len(order) THEN acc
    ELSE LET idx == order[k]
             src == sources[idx]
             base == toTypeIdentifier(src, rev)
             count == UsedGet(used, base)
             ident == Suffixed(base, count)
         IN  AssignLoop(sources, rev, order, k + 1,
                        UsedSet(used, base, count + 1),
                        [identifiers |-> [acc.identifiers EXCEPT ![idx] = ident],
                         sortedMap |-> MapSet(acc.sortedMap, src, ident)])

RECURSIVE ResultLoop(_, _, _, _, _)
\* result.set for every position of the input, in input order
ResultLoop(sources, rev, assigned, i, result) ==
    IF i > Len(sources) THEN result
    ELSE ResultLoop(sources, rev, assigned, i + 1,
             MapSet(result, sources[i],
                    IF rev = "identifiers.ts:96"
                    THEN assigned.identifiers[i]
                    ELSE MapGet(assigned.sortedMap, sources[i])))

\* src/ keeps buildIdentifierMap in two revisions, both in identifiers.ts:
\* the one at line 96 refuses a list that repeats a source, the one at line
\* 222 does not look.
IdentifierRevisions == {"identifiers.ts:96", "identifiers.ts:222"}

RejectsDuplicates(rev) == rev = "identifiers.ts:96"

buildIdentifierMap(sources, rev) ==
    IF RejectsDuplicates(rev) /\ SetSize(sources) # Len(sources)
    THEN [state |-> "threw",
          error |-> "duplicate source strings are not supported"]
    ELSE LET assigned ==
                 AssignLoop(sources, rev, sortedIndices(sources), 1, <<>>,
                            [identifiers |-> [i \in 1..Len(sources) |-> <<>>],
                             sortedMap |-> <<>>])
         IN  [state |-> "returned",
              map |-> ResultLoop(sources, rev, assigned, 1, <<>>)]

\* buildIdentifierMap over every list of at most MaxSources sources.

MaxSources == 3

SourceStrings ==
    { <<"a", "-", "b">>, <<"a", "B">>, <<"a", " ", "b">>, <<"A", "B">>,
      <<FULLWIDTH_A, "B">>, <<"A", "B", "_", "_", "2">>, <<"1", "a">>,
      <<"o", "f">>, <<"-">>, <<>> }

SourceLists ==
    UNION { [1..n -> SourceStrings] : n \in 0..MaxSources }

InitIdentifiers ==
    /\ input \in { [sources |-> l] : l \in SourceLists }
    /\ revision \in IdentifierRevisions
    /\ calls = <<>>
    /\ objects = <<>>
    /\ loop = <<>>
    /\ pc = "identifiers"
    /\ ast = NoAst
    /\ diagnostics = <<>>
    /\ ir = NoIr
    /\ artifacts = <<>>
    /\ returned = NoResult
    /\ trace = <<>>

BuildIdentifierMap ==
    /\ pc = "identifiers"
    /\ returned' = buildIdentifierMap(input.sources, revision)
    /\ pc' = "built"
    /\ UNCHANGED <<ast, diagnostics, ir, input, artifacts, trace, revision,
                 calls, objects, loop>>

NextIdentifiers == BuildIdentifierMap

SpecIdentifiers == InitIdentifiers /\ [][NextIdentifiers]_vars

\* toTypeIdentifier as defined at identifiers.ts:57, over every source of
\* at most MaxSourceLen characters and over some reserved words.
MaxSourceLen == 3

SourceChars == {"o", "f", "O", "1", "_", "$", "-", E_ACUTE, FULLWIDTH_A}

KeywordSources ==
    { <<"t", "y", "p", "e">>, <<"n", "u", "l", "l">>,
      <<"c", "l", "a", "s", "s">>, <<"-", "i", "n", "-">> }

TypeSources ==
    UNION { [1..n -> SourceChars] : n \in 0..MaxSourceLen }

InitTypeIdentifier ==
    /\ \/ \E source \in TypeSources : input = [source |-> source]
       \/ \E source \in KeywordSources : input = [source |-> source]
    /\ revision = "identifiers.ts:96"
    /\ calls = <<>>
    /\ objects = <<>>
    /\ loop = <<>>
    /\ pc = "identifier"
    /\ ast = NoAst
    /\ diagnostics = <<>>
    /\ ir = NoIr
    /\ artifacts = <<>>
    /\ returned = NoResult
    /\ trace = <<>>

ToTypeIdentifier ==
    /\ pc = "identifier"
    /\ returned' = [state |-> "returned",
                    text |-> toTypeIdentifier(input.source, revision)]
    /\ pc' = "named"
    /\ UNCHANGED <<ast, diagnostics, ir, input, artifacts, trace, revision,
                 calls, objects, loop>>

NextTypeIdentifier == ToTypeIdentifier

SpecTypeIdentifier == InitTypeIdentifier /\ [][NextTypeIdentifier]_vars

----------------------------------------------------------------------------
(* Interleaved invocations of compile *)

(* compile is an async function: it runs until its first await, and after  *)
(* the awaited promise settles it runs on to its return.  The awaits are  *)
(* the one on the adapter inside parseGraphqlSdl and the one on           *)
(* parseInputToCanonicalAst inside compile; between them any other        *)
(* invocation may run.  Objects live in a store: the diagnostics arrays   *)
(* and the artifact maps by address, and the one DEFAULT_OPTIONS object   *)
(* of the module.                                                         *)
Calls == {1, 2}

DEFAULT_OPTIONS ==
    [emit |-> [irJson |-> TRUE, tsTypes |-> TRUE, jsonSchema |-> FALSE,
               binaryPack |-> FALSE],
     failOnWarnings |-> FALSE]

\* input.options left out by the caller.
NoOptions == [omitted |-> TRUE]

\* What mergeOptions returns: base itself when partial is missing, else a
\* new object with the fields of partial laid over those of base.
mergeOptionsOnto(base, partial) ==
    IF partial = NoOptions THEN [ref |-> "DEFAULT_OPTIONS"]
    ELSE [ref |-> "own",
          value |->
              [emit |-> [f \in EmitFlags |->
                             IF partial.emit[f] = "unset" THEN base.emit[f]
                             ELSE partial.emit[f] = "true"],
               failOnWarnings |->
                   IF partial.failOnWarnings = "unset"
                   THEN base.failOnWarnings
                   ELSE partial.failOnWarnings = "true"]]

\* The object an options reference stands for.
OptionsOf(ref, store) ==
    IF ref.ref = "DEFAULT_OPTIONS" THEN store.defaults ELSE ref.value

\* One array that every invocation pushes to.
SharedArray(c) == 0

\* const diagnostics: Diagnostic[] = []: a new array per invocation.
NewArray(c) == c

\* const artifacts: ArtifactMap = {}: a new map per invocation.
NewMap(c) == c

Allocate(cells, address, empty) ==
    IF address \in DOMAIN cells THEN cells ELSE cells @@ (address :> empty)

NoCall(inp) ==
    [input |-> inp, pc |-> "idle", options |-> NoOptions, diagnostics |-> 0,
     artifacts |-> 0, ast |-> NoAst, trace |-> <<>>, returned |-> NoResult,
     overtaken |-> FALSE]

\* The invocations after c took a step: one that waits for its adapter has
\* been overtaken.
Overtakes(c, after) ==
    [d \in Calls |->
         IF d # c /\ after[d].pc = "adapter"
         THEN [after[d] EXCEPT !.overtaken = TRUE] ELSE after[d]]

\* parseGraphqlSdl reaches the await on the adapter.
AwaitsAdapter(inp) ==
    /\ inp.format = "graphql-sdl"
    /\ ~IsBlank(inp.source)
    /\ inp.adapter # "missing"

\* The inputs of the interleaved invocations.
InterleavedOptions ==
    {NoOptions}
        \cup {o \in CompileOptionSets :
                  /\ o.emit.binaryPack = "true"
                  /\ \A f \in EmitFlags \ {"binaryPack"} : o.emit[f] = "unset"
                  /\ o.failOnWarnings = "unset"}

InterleavedSources == {"{", "doc:unsized", "doc:one"}

InterleavedInputs ==
    [format : {"canonical-ast-json"}, source : InterleavedSources,
     adapter : {"missing"}, fault : {"none", "emitTypes"},
     options : InterleavedOptions]
        \cup [format : {"graphql-sdl"}, source : InterleavedSources,
              adapter : {"warns", "warnsThrows"},
              fault : {"none", "emitTypes"}, options : InterleavedOptions]

InitInterleaved ==
    /\ calls \in [Calls -> {NoCall(inp) : inp \in InterleavedInputs}]
    /\ objects = [arrays |-> <<>>, maps |-> <<>>, defaults |-> DEFAULT_OPTIONS]
    /\ loop = <<>>
    /\ revision \in CompileRevisions
    /\ pc = "interleaved"
    /\ ast = NoAst
    /\ diagnostics = <<>>
    /\ ir = NoIr
    /\ input = NoInput
    /\ artifacts = <<>>
    /\ returned = NoResult
    /\ trace = <<>>

\* diagnostics.push(...) on the array at an address.
PushAll(store, address, pushed) ==
    [store EXCEPT !.arrays[address] = @ \o pushed]

\* compile from its call to its first await: the options, the two
\* allocations, and parseInputToCanonicalAst up to the adapter's promise or
\* to its own return.
CallCompile(c) ==
    /\ pc = "interleaved"
    /\ calls[c].pc = "idle"
    /\ LET inp == calls[c].input
           p == parseInputToCanonicalAst(inp)
           array == NewArray(c)
           map == NewMap(c)
           allocated ==
               [objects EXCEPT !.arrays = Allocate(@, array, <<>>),
                               !.maps = Allocate(@, map, <<>>)]
           call == [calls[c] EXCEPT
                        !.options = mergeOptionsOnto(objects.defaults,
                                                     inp.options),
                        !.diagnostics = array,
                        !.artifacts = map]
       IN  IF AwaitsAdapter(inp)
           THEN /\ objects' = PushAll(allocated, array,
                                      AdapterPushes(inp.adapter))
                /\ calls' = Overtakes(c, [calls EXCEPT ![c] =
                                 [call EXCEPT !.pc = "adapter"]])
           ELSE /\ objects' = PushAll(allocated, array, p.diagnostics)
                /\ calls' = Overtakes(c, [calls EXCEPT ![c] =
                                 [call EXCEPT !.pc = "parsed",
                                              !.ast = p.ast,
                                              !.trace = <<"parse">>]])
    /\ UNCHANGED <<ast, pc, diagnostics, ir, input, artifacts, returned,
                   trace, revision, loop>>

\* The adapter's promise settles: parseGraphqlSdl runs on to its return.
AdapterSettles(c) ==
    /\ pc = "interleaved"
    /\ calls[c].pc = "adapter"
    /\ LET inp == calls[c].input
           p == parseGraphqlSdl(inp)
           before == Len(AdapterPushes(inp.adapter))
       IN  /\ objects' = PushAll(objects, calls[c].diagnostics,
                                 SubSeq(p.diagnostics, before + 1,
                                        Len(p.diagnostics)))
           /\ calls' = Overtakes(c, [calls EXCEPT ![c] =
                            [@ EXCEPT !.pc = "parsed", !.ast = p.ast,
                                      !.trace = <<"parse">>]])
    /\ UNCHANGED <<ast, pc, diagnostics, ir, input, artifacts, returned,
                   trace, revision, loop>>

\* The promise of parseInputToCanonicalAst settles: compile runs on through
\* validation and emission to its return.  Every push goes to the array at
\* the invocation's address and every artifact into the map at its address.
ResumeCompile(c) ==
    /\ pc = "interleaved"
    /\ calls[c].pc = "parsed"
    /\ LET call == calls[c]
           v == ValidatePhase(call.input, revision, call.ast,
                              objects.arrays[call.diagnostics], call.trace)
           e == IF v.done THEN v
                ELSE EmitPhase(call.input, revision,
                               OptionsOf(call.options, objects), call.ast,
                               v.diagnostics, v.trace)
       IN  /\ objects' =
                  [objects EXCEPT !.arrays[call.diagnostics] = e.diagnostics,
                                  !.maps[call.artifacts] = e.artifacts @@ @]
           /\ calls' = Overtakes(c, [calls EXCEPT ![c] =
                            [@ EXCEPT !.pc = "settled", !.trace = e.trace,
                                      !.returned = e.returned]])
    /\ UNCHANGED <<ast, pc, diagnostics, ir, input, artifacts, returned,
                   trace, revision, loop>>

NextInterleaved ==
    \E c \in Calls : CallCompile(c) \/ AdapterSettles(c) \/ ResumeCompile(c)

SpecInterleaved == InitInterleaved /\ [][NextInterleaved]_vars

----------------------------------------------------------------------------
(* The Kahn loops of detectCycles and topoSort, one iteration at a time *)

\* The longest node array the loops are run on.
MaxLoopNodes == 3

\* Any id with any parent: none, itself, another node, an id no node has;
\* ids may occur twice.
LoopNodes ==
    [id : CrossIds, kind : {"Group"}, parentId : CrossIds \cup {undefined},
     zIndex : {NumUndefined}, props : {<<>>}, sourceRef : {"L1"}]

LoopAsts == AstOver(SeqsUpTo(LoopNodes, MaxLoopNodes))

InitLoops ==
    /\ ast \in LoopAsts
    /\ pc = "input"
    /\ diagnostics = <<>>
    /\ ir = NoIr
    /\ NoCompile

\* A queue that starts with every id of the map.
CycleInitialQueueAll(nodes, inDegree) == MapKeyOrder(nodes)

\* for (const [id, deg] of inDegree) if (deg === 0) queue.push(id)
CycleInitialQueue(nodes, inDegree) ==
    LET IsZero(id) == inDegree[id] = 0
    IN  SelectSeq(MapKeyOrder(nodes), IsZero)

\* detectCycles up to its while loop.
EnterDetectCycles ==
    /\ pc = "input"
    /\ LET inDegree == CycleInDegree(ast.nodes)
       IN  loop' = [fn |-> "detectCycles",
                    queue |-> CycleInitialQueue(ast.nodes, inDegree),
                    qi |-> 0, inDegree |-> inDegree, processed |-> 0]
    /\ pc' = "detectCycles"
    /\ UNCHANGED <<ast, diagnostics, ir, input, artifacts, returned, trace,
                   revision, calls, objects>>

\* One pass through the body of while (qi < queue.length).
CycleIteration ==
    /\ pc = "detectCycles"
    /\ loop.qi < Len(loop.queue)
    /\ LET id == loop.queue[loop.qi + 1]
           dec == CycleDecrement(CycleChildren(ast.nodes)[id], loop.inDegree,
                                 loop.queue)
       IN  loop' = [loop EXCEPT !.queue = dec.queue, !.qi = @ + 1,
                                !.inDegree = dec.inDegree,
                                !.processed = @ + 1]
    /\ UNCHANGED <<ast, pc, diagnostics, ir, input, artifacts, returned, trace,
                   revision, calls, objects>>

\* The loop test fails: detectCycles returns the ids left over.
LeaveDetectCycles ==
    /\ pc = "detectCycles"
    /\ ~(loop.qi < Len(loop.queue))
    /\ LET IsLeft(id) == loop.inDegree[id] > 0
       IN  returned' =
               [state |-> "returned",
                value |-> IF loop.processed = Len(ast.nodes) THEN <<>>
                          ELSE SelectSeq(MapKeyOrder(ast.nodes), IsLeft)]
    /\ pc' = "returned"
    /\ UNCHANGED <<ast, diagnostics, ir, input, artifacts, trace, revision,
                   calls, objects, loop>>

\* topoSort up to its while loop; an empty node array returns at once.
EnterTopoSort ==
    /\ pc = "input"
    /\ IF Len(ast.nodes) = 0
       THEN /\ loop' = [fn |-> "topoSort", queue |-> <<>>, qi |-> 0,
                        inDegree |-> <<>>, result |-> <<>>]
            /\ returned' = [state |-> "returned", value |-> <<>>]
            /\ pc' = "returned"
       ELSE /\ LET inDegree == TopoInDegree(ast.nodes)
               IN  loop' = [fn |-> "topoSort",
                            queue |-> TopoInitialReady(ast.nodes, inDegree),
                            qi |-> 0, inDegree |-> inDegree, result |-> <<>>]
            /\ returned' = returned
            /\ pc' = "topoSort"
    /\ UNCHANGED <<ast, diagnostics, ir, input, artifacts, trace, revision,
                   calls, objects>>

\* One pass through the body of while (qi < ready.length).
TopoIteration ==
    /\ pc = "topoSort"
    /\ loop.qi < Len(loop.queue)
    /\ LET node == loop.queue[loop.qi + 1]
           dec == TopoDecrement(TopoChildren(ast.nodes)[node.id],
                                loop.inDegree, <<>>)
           tail == SubSeq(loop.queue, loop.qi + 2, Len(loop.queue))
       IN  loop' = [loop EXCEPT
                        !.queue = IF dec.newlyReady # <<>>
                                  THEN SubSeq(loop.queue, 1, loop.qi + 1)
                                       \o sortReady(tail
                                                    \o sortReady(dec.newlyReady))
                                  ELSE @,
                        !.qi = @ + 1,
                        !.inDegree = dec.inDegree,
                        !.result = Append(@, sanitize(node))]
    /\ UNCHANGED <<ast, pc, diagnostics, ir, input, artifacts, returned, trace,
                   revision, calls, objects>>

\* The loop test fails: topoSort appends the nodes left over and returns.
LeaveTopoSort ==
    /\ pc = "topoSort"
    /\ ~(loop.qi < Len(loop.queue))
    /\ returned' =
           [state |-> "returned",
            value |-> loop.result
                      \o SanitizeAll(TopoRemaining(ast.nodes, loop.inDegree))]
    /\ pc' = "returned"
    /\ UNCHANGED <<ast, diagnostics, ir, input, artifacts, trace, revision,
                   calls, objects, loop>>

NextLoops ==
    \/ EnterDetectCycles \/ CycleIteration \/ LeaveDetectCycles
    \/ EnterTopoSort \/ TopoIteration \/ LeaveTopoSort

SpecLoops == InitLoops /\ [][NextLoops]_vars

----------------------------------------------------------------------------
(* The AST as validation and emission leave it *)

(* Array.prototype.sort works in place, and the arrays topoSort sorts hold *)
(* the node objects of the AST.  The arrays of one call are kept by name: *)
(* nodes is the array of the AST, ready and remaining are allocated by    *)
(* topoSort.  sanitize builds a new object by destructuring, normalize    *)
(* fills a new array or object, and validateCanonicalAst only reads.      *)
TopoArrays(nodes) == [nodes |-> nodes, ready |-> <<>>, remaining |-> <<>>]

\* arr.sort(...): the array that was passed holds its elements in order.
SortInPlace(arrays, name) == [arrays EXCEPT ![name] = sortReady(@)]

\* A call that passes the node array of the AST.
ReadyToSortIsInput == "nodes"

\* sortReady(ready): the array the roots were pushed into.
ReadyToSort == "ready"

\* topoSort over the named arrays: [result, arrays].
topoSortInPlace(nodes) ==
    IF Len(nodes) = 0
    THEN [result |-> <<>>, arrays |-> TopoArrays(nodes)]
    ELSE LET inDegree == TopoInDegree(nodes)
             IsRoot(n) == inDegree[n.id] = 0
             sorted ==
                 SortInPlace([TopoArrays(nodes) EXCEPT
                                  !.ready = SelectSeq(nodes, IsRoot)],
                             ReadyToSort)
             done == TopoLoop(TopoChildren(nodes), sorted.ready, 0, inDegree,
                              <<>>)
             Left(n) == done.inDegree[n.id] > 0
             last == SortInPlace([sorted EXCEPT
                                      !.remaining = SelectSeq(sorted.nodes, Left)],
                                 "remaining")
         IN  [result |-> done.result \o SanitizeAll(last.remaining),
              arrays |-> last]

\* Nodes in any order, with and without a parent and a zIndex, and the
\* bindings and animations of the scene.
ReadOnlyNodes ==
    [id : CrossIds, kind : {"Rect"}, parentId : {"a", undefined},
     zIndex : {NumUndefined, Num(1)}, props : {SizedProps},
     sourceRef : {"L1", "L2"}]

ReadOnlyAsts ==
    [scene : {SceneOk}, nodes : SeqsUpTo(ReadOnlyNodes, MaxCross),
     bindings : {<<>>, <<[id |-> "b1", targetNodeId |-> "a",
                          targetProp |-> "x", expression |-> "0"]>>},
     animations : {<<>>, <<[id |-> "a1", targetNodeId |-> "b",
                            property |-> "opacity"]>>}]

\* input keeps the AST as the parser returned it.
InitReadOnly ==
    /\ ast \in ReadOnlyAsts
    /\ input = [parsed |-> ast]
    /\ pc = "parsed"
    /\ diagnostics = <<>>
    /\ ir = NoIr
    /\ artifacts = <<>>
    /\ returned = NoResult
    /\ trace = <<>>
    /\ revision = "only"
    /\ calls = <<>>
    /\ objects = <<>>
    /\ loop = <<>>

\* validateCanonicalAst(ast): it writes to its own diagnostics array and
\* maps only.
ValidateReadOnly ==
    /\ pc = "parsed"
    /\ diagnostics' = validateCanonicalAst(ast)
    /\ pc' = "checked"
    /\ UNCHANGED <<ast, ir, input, artifacts, returned, trace, revision, calls,
                   objects, loop>>

\* emitSvjifIrArtifact(ast), stableStringify included, and the result that
\* compile assembles around the AST.
EmitReadOnly ==
    /\ pc = "checked"
    /\ LET sorted == topoSortInPlace(ast.nodes)
           after == [ast EXCEPT !.nodes = sorted.arrays.nodes]
           doc == [irVersion |-> IR_VERSION, scene |-> ast.scene,
                   nodes |-> sorted.result, bindings |-> ast.bindings,
                   animations |-> ast.animations]
       IN  /\ ast' = after
           /\ ir' = doc
           /\ artifacts' = (IR_ARTIFACT_KEY :>
                                [path |-> IR_ARTIFACT_KEY, content |-> doc])
           /\ returned' = finalize("part_011", TRUE, after, artifacts')
    /\ pc' = "assembled"
    /\ UNCHANGED <<diagnostics, input, trace, revision, calls, objects, loop>>

NextReadOnly == ValidateReadOnly \/ EmitReadOnly

SpecReadOnly == InitReadOnly /\ [][NextReadOnly]_vars

----------------------------------------------------------------------------
(* Every entry point over every input *)

Init ==
    \/ InitEmit \/ InitValidate \/ InitCompile \/ InitStringify
    \/ InitIdentifiers \/ InitTypeIdentifier \/ InitInterleaved
    \/ InitAuthored \/ InitLoops \/ InitReadOnly

Next ==
    \/ EmitIr \/ Validate \/ NextCompile \/ Stringify \/ BuildIdentifierMap
    \/ ToTypeIdentifier \/ NextInterleaved \/ NextLoops \/ NextReadOnly

Spec == Init /\ [][Next]_vars

----------------------------------------------------------------------------
(* Vocabulary of the properties *)

Emitted == pc = "emitted"
Validated == pc = "validated"

UniqueIds(nodes) ==
    \A i, j \in DOMAIN nodes : i # j => nodes[i].id # nodes[j].id

HasDuplicateId(nodes) == ~UniqueIds(nodes)

\* The parentId graph over the existing ids: an edge from a node's id to the
\* id its parentId names.
ParentEdges(nodes) ==
    {<<nodes[i].id, nodes[i].parentId>> :
        i \in {k \in DOMAIN nodes : nodes[k].parentId \in NodeIds(nodes)}}

Compose(R, E) ==
    {<<r[1], e[2]>> : <<r, e>> \in {x \in R \X E : x[1][2] = x[2][1]}}

RECURSIVE PathsUpTo(_, _)
PathsUpTo(E, k) ==
    IF k <= 1 THEN E ELSE PathsUpTo(E, k - 1) \cup Compose(PathsUpTo(E, k - 1), E)

\* The ids that lie on a cycle of the parentId graph.
OnCycle(nodes) ==
    {id \in NodeIds(nodes) :
        <<id, id>> \in PathsUpTo(ParentEdges(nodes), Cardinality(NodeIds(nodes)))}

HasCycle(nodes) == OnCycle(nodes) # {}

PermsOf(n) ==
    {p \in [1..n -> 1..n] : \A i, j \in 1..n : i # j => p[i] # p[j]}

Permuted(arr, p) == [i \in DOMAIN arr |-> arr[p[i]]]

\* The order on JavaScript numbers without NaN.
NumLess(x, y) ==
    IF x.t = "num" /\ y.t = "num" THEN x.v < y.v
    ELSE IF x.t = "inf" /\ y.t = "inf" THEN x.v < y.v
    ELSE IF x.t = "inf" THEN x.v < 0
    ELSE y.v > 0

ZOf(n) == IF n.zIndex.t = "undefined" THEN Num(0) ELSE n.zIndex

\* a comes before b under the key (zIndex, kind, id).
KeyLess(a, b) ==
    \/ NumLess(ZOf(a), ZOf(b))
    \/ ZOf(a) = ZOf(b) /\ StrRank(a.kind) < StrRank(b.kind)
    \/ ZOf(a) = ZOf(b) /\ a.kind = b.kind /\ StrRank(a.id) < StrRank(b.id)

CodesOf(diags) == {diags[i].code : i \in DOMAIN diags}

CountDiags(diags, code, details) ==
    Cardinality({i \in DOMAIN diags :
        diags[i].code = code /\ diags[i].details = details})

CountCode(diags, code) ==
    Cardinality({i \in DOMAIN diags : diags[i].code = code})

----------------------------------------------------------------------------
(* The emitter's properties *)

\* C1: for an AST with unique node ids, the IR emitted for every permutation
\* of the node array equals the IR emitted for the array as given.
C1_OrderInvariance ==
    (Emitted /\ UniqueIds(ast.nodes)) =>
        \A p \in PermsOf(Len(ast.nodes)) :
            emitSvjifIrArtifact([ast EXCEPT !.nodes = Permuted(ast.nodes, p)]) = ir

\* C2: for an AST with unique ids and an acyclic parentId graph, every emitted
\* node whose parentId names an existing node comes strictly after the entry
\* of that parent in the IR node list.
C2_ParentBeforeChild ==
    (Emitted /\ UniqueIds(ast.nodes) /\ ~HasCycle(ast.nodes)) =>
        \A j \in DOMAIN ir.nodes :
            ir.nodes[j].parentId \in NodeIds(ast.nodes) =>
                \E i \in 1..(j - 1) : ir.nodes[i].id = ir.nodes[j].parentId

\* A chain of three nodes given leaf first has been emitted.
C2_Witness ==
    /\ Emitted
    /\ UniqueIds(ast.nodes) /\ ~HasCycle(ast.nodes)
    /\ Len(ast.nodes) = 3
    /\ ast.nodes[1].parentId = ast.nodes[2].id
    /\ ast.nodes[2].parentId = ast.nodes[3].id
    /\ ast.nodes[3].parentId = undefined
    /\ Len(ir.nodes) = 3

\* C3: in the emission of an AST with unique ids and an acyclic parentId
\* graph, the node at each place of the IR node list is the least, under the
\* key (zIndex with unset as 0, kind, id), of the nodes not emitted before it
\* that have no resolved parent or whose parent was emitted before it.
C3_TieBreakLaw ==
    (Emitted /\ UniqueIds(ast.nodes) /\ ~HasCycle(ast.nodes)) =>
        \A k \in DOMAIN ir.nodes :
            LET before == {ir.nodes[i].id : i \in 1..(k - 1)}
                readyNow ==
                    {i \in DOMAIN ast.nodes :
                        /\ ast.nodes[i].id \notin before
                        /\ \/ ~HasResolvedParent(ast.nodes, ast.nodes[i])
                           \/ ast.nodes[i].parentId \in before}
            IN  \A i \in readyNow :
                    ast.nodes[i].id # ir.nodes[k].id => KeyLess(ir.nodes[k], ast.nodes[i])

\* C4: the IR node list is a permutation of the input nodes (each sanitized):
\* no node is dropped and none is emitted twice.
C4_NoNodeDropped ==
    Emitted =>
        /\ Len(ir.nodes) = Len(ast.nodes)
        /\ \E p \in PermsOf(Len(ast.nodes)) :
              \A i \in DOMAIN ast.nodes : ir.nodes[i] = sanitize(ast.nodes[p[i]])

----------------------------------------------------------------------------
(* The validator's properties *)

Tier1Codes ==
    {E_SCENE_DIMENSIONS_INVALID, E_NODE_KIND_INVALID, E_NODE_DUPLICATE_ID,
     E_PARENT_NOT_FOUND, E_BIND_TARGET_NOT_FOUND, E_REF_TARGET_NOT_FOUND,
     E_CYCLE_DETECTED}

Tier1Clean == CodesOf(diagnostics) \cap Tier1Codes = {}

\* The props each kind requires, as the data model of the specification
\* lists them.
RequiredOfKind(kind) ==
    CASE kind = "Rect" -> {"width", "height"}
      [] kind = "Text" -> {"content"}
      [] kind = "Image" -> {"src"}
      [] kind = "Ellipse" -> {"rx", "ry"}
      [] kind = "Line" -> {"x2", "y2"}
      [] kind = "Path" -> {"d"}
      [] OTHER -> {}

AllPropNames == {"width", "height", "content", "src", "rx", "ry", "x2", "y2", "d"}

LacksProp(node, prop) ==
    \/ prop \notin DOMAIN node.props
    \/ node.props[prop] \in {"undefined", "null"}

SomeRequiredPropMissing ==
    \E i \in DOMAIN ast.nodes :
        \E prop \in RequiredOfKind(ast.nodes[i].kind) : LacksProp(ast.nodes[i], prop)

\* C5: the returned list never holds E_PROP_REQUIRED_MISSING together with a
\* Tier 1 error.
C5_TierGating ==
    Validated =>
        ~(E_PROP_REQUIRED_MISSING \in CodesOf(diagnostics) /\ ~Tier1Clean)

\* A Tier 1 error was reported for an AST in which a required prop is missing.
C5_Witness ==
    /\ Validated
    /\ ~Tier1Clean
    /\ SomeRequiredPropMissing
    /\ E_PROP_REQUIRED_MISSING \notin CodesOf(diagnostics)

\* C6: E_CYCLE_DETECTED is reported exactly when the parentId graph over the
\* existing ids has a cycle.
C6_CycleDetectionExact ==
    Validated =>
        (E_CYCLE_DETECTED \in CodesOf(diagnostics) <=> HasCycle(ast.nodes))

\* A ring through three distinct ids was validated and reported.
C6_Witness ==
    /\ Validated
    /\ Len(ast.nodes) = 3 /\ UniqueIds(ast.nodes)
    /\ OnCycle(ast.nodes) = NodeIds(ast.nodes)
    /\ \A i \in DOMAIN ast.nodes : ast.nodes[i].parentId # ast.nodes[i].id
    /\ E_CYCLE_DETECTED \in CodesOf(diagnostics)

\* C7: when some id occurs more than once and the parentId graph has no
\* cycle, each id that occurs n times is reported n - 1 times with
\* E_NODE_DUPLICATE_ID and E_CYCLE_DETECTED is not reported.
C7_DuplicateIdNoSpuriousCycle ==
    (Validated /\ HasDuplicateId(ast.nodes) /\ ~HasCycle(ast.nodes)) =>
        /\ \A id \in NodeIds(ast.nodes) :
              CountDiags(diagnostics, E_NODE_DUPLICATE_ID, [nodeId |-> id])
                  = Cardinality({i \in DOMAIN ast.nodes : ast.nodes[i].id = id}) - 1
        /\ CountCode(diagnostics, E_NODE_DUPLICATE_ID)
              = Len(ast.nodes) - Cardinality(NodeIds(ast.nodes))
        /\ E_CYCLE_DETECTED \notin CodesOf(diagnostics)

\* Two nodes that share an id and a parent were validated.
C7_Witness ==
    /\ Validated
    /\ ~HasCycle(ast.nodes)
    /\ \E i, j \in DOMAIN ast.nodes :
          /\ i < j
          /\ ast.nodes[i].id = ast.nodes[j].id
          /\ ast.nodes[i].parentId = ast.nodes[j].parentId
          /\ ast.nodes[i].parentId \in NodeIds(ast.nodes)
    /\ CountCode(diagnostics, E_NODE_DUPLICATE_ID) = 1

DanglingParents ==
    {i \in DOMAIN ast.nodes :
        ast.nodes[i].parentId # undefined /\ ast.nodes[i].parentId \notin NodeIds(ast.nodes)}
DanglingBindings ==
    {i \in DOMAIN ast.bindings : ast.bindings[i].targetNodeId \notin NodeIds(ast.nodes)}
DanglingAnimations ==
    {i \in DOMAIN ast.animations : ast.animations[i].targetNodeId \notin NodeIds(ast.nodes)}

\* C8: every dangling parentId, binding target and animation target is
\* reported, each under its own code; an animation is reported with
\* refKind = "animation" and never as E_BIND_TARGET_NOT_FOUND.
C8_DanglingRefsReported ==
    Validated =>
        /\ \A i \in DanglingParents :
              CountDiags(diagnostics, E_PARENT_NOT_FOUND,
                         [nodeId |-> ast.nodes[i].id, parentId |-> ast.nodes[i].parentId]) >= 1
        /\ CountCode(diagnostics, E_PARENT_NOT_FOUND) = Cardinality(DanglingParents)
        /\ \A i \in DanglingBindings :
              CountDiags(diagnostics, E_BIND_TARGET_NOT_FOUND,
                         [bindingId |-> ast.bindings[i].id,
                          targetNodeId |-> ast.bindings[i].targetNodeId]) >= 1
        /\ CountCode(diagnostics, E_BIND_TARGET_NOT_FOUND) = Cardinality(DanglingBindings)
        /\ \A i \in DanglingAnimations :
              CountDiags(diagnostics, E_REF_TARGET_NOT_FOUND,
                         [refKind |-> "animation", animationId |-> ast.animations[i].id,
                          targetNodeId |-> ast.animations[i].targetNodeId]) >= 1
        /\ CountCode(diagnostics, E_REF_TARGET_NOT_FOUND) = Cardinality(DanglingAnimations)

\* A dangling animation was validated beside a binding whose target exists.
C8_Witness ==
    /\ Validated
    /\ DanglingAnimations # {}
    /\ ast.bindings # <<>> /\ DanglingBindings = {}
    /\ E_REF_TARGET_NOT_FOUND \in CodesOf(diagnostics)

FinitePositive(x) == x.t = "num" /\ x.v > 0

\* C9: E_SCENE_DIMENSIONS_INVALID is reported exactly when the width or the
\* height is not a finite number greater than 0.
C9_SceneDimensionRejection ==
    Validated =>
        (E_SCENE_DIMENSIONS_INVALID \in CodesOf(diagnostics)
            <=> ~(FinitePositive(ast.scene.width) /\ FinitePositive(ast.scene.height)))

\* C10: when no Tier 1 error is reported, each pair of a node and a prop is
\* reported with E_PROP_REQUIRED_MISSING once when the node's kind requires
\* the prop and the node lacks it, and not at all otherwise.
C10_RequiredProps ==
    (Validated /\ Tier1Clean) =>
        /\ \A i \in DOMAIN ast.nodes : \A prop \in AllPropNames :
              CountDiags(diagnostics, E_PROP_REQUIRED_MISSING,
                         [nodeId |-> ast.nodes[i].id, kind |-> ast.nodes[i].kind,
                          prop |-> prop])
                  = IF prop \in RequiredOfKind(ast.nodes[i].kind)
                       /\ LacksProp(ast.nodes[i], prop)
                    THEN 1 ELSE 0
        /\ CountCode(diagnostics, E_PROP_REQUIRED_MISSING)
              = Cardinality({x \in (DOMAIN ast.nodes) \X AllPropNames :
                    /\ x[2] \in RequiredOfKind(ast.nodes[x[1]].kind)
                    /\ LacksProp(ast.nodes[x[1]], x[2])})

\* A Rect with only its height set was validated and its width reported.
C10_Witness ==
    /\ Validated
    /\ Tier1Clean
    /\ \E i \in DOMAIN ast.nodes :
          /\ ast.nodes[i].kind = "Rect"
          /\ DOMAIN ast.nodes[i].props = {"height"}
          /\ ast.nodes[i].props["height"] = "10"
          /\ CountDiags(diagnostics, E_PROP_REQUIRED_MISSING,
                        [nodeId |-> ast.nodes[i].id, kind |-> "Rect", prop |-> "width"]) = 1
    /\ CountCode(diagnostics, E_PROP_REQUIRED_MISSING) = 1

----------------------------------------------------------------------------
(* Properties of compile *)

Done == pc = "done"

Emitters == {"emitIr", "emitReceipt", "emitTypes", "emitSchemaStub"}

Ran(phase) == \E i \in DOMAIN trace : trace[i] = phase

NoEmitterRan == \A i \in DOMAIN trace : trace[i] \notin Emitters

FaultFired == Ran("throw")

AdapterThrew ==
    /\ input.format = "graphql-sdl"
    /\ ~IsBlank(input.source)
    /\ AdapterThrows(input.adapter)

Options == mergeOptions(input.options)

\* C11: compile never propagates an exception.  Whatever the input and
\* whichever of the parser adapter, the validator or an emitter throws, the
\* promise is never rejected and a finished compilation has resolved to a
\* result; a fault caught by compile gives ok = false and exactly one
\* E_INTERNAL_INVARIANT diagnostic, appended last, and a throwing parser
\* adapter gives ok = false and exactly one E_INTERNAL_INVARIANT diagnostic.
C11_NeverPropagates ==
    /\ returned.state # "rejected"
    /\ Done => returned.state = "resolved"
    /\ (Done /\ FaultFired) =>
           /\ returned.ok = FALSE
           /\ CountCode(diagnostics, E_INTERNAL_INVARIANT) = 1
           /\ diagnostics[Len(diagnostics)] = InternalDiag
    /\ (Done /\ AdapterThrew) =>
           /\ returned.ok = FALSE
           /\ CountCode(diagnostics, E_INTERNAL_INVARIANT) = 1

\* An emitter threw after the IR and its receipt were stored.
C11_Witness ==
    /\ Done
    /\ FaultFired
    /\ input.fault = "emitTypes"
    /\ IR_RECEIPT_KEY \in DOMAIN artifacts
    /\ returned.ok = FALSE

\* C12: errors stop the pipeline before emission.  Emission is entered only
\* with no error diagnostic; a compilation that did not enter emission ran
\* no emitter, has an empty artifact map and, once finished, ok = false; and
\* a result with ok = true carries no error diagnostic.
C12_ErrorsStopBeforeEmission ==
    /\ pc = "validated" => ~HasSeverity(diagnostics, "error")
    /\ (HasSeverity(diagnostics, "error") /\ pc \in {"parsed", "validated"}) =>
           (NoEmitterRan /\ artifacts = <<>>)
    /\ ~Ran("emit") => (NoEmitterRan /\ artifacts = <<>>)
    /\ (Done /\ ~Ran("emit")) =>
           (returned.ok = FALSE /\ HasSeverity(diagnostics, "error"))
    /\ (Done /\ returned.ok) => ~HasSeverity(diagnostics, "error")

\* A validation error (a Rect without its size) stopped the compilation.
C12_Witness ==
    /\ Done
    /\ input.source = "doc:unsized"
    /\ CountCode(diagnostics, E_PROP_REQUIRED_MISSING) = 2
    /\ ~Ran("emit")
    /\ returned.ok = FALSE
    /\ artifacts = <<>>

\* C13: with emit.jsonSchema requested and a clean validation, compile
\* returns ok = false with one E_FEATURE_NOT_IMPLEMENTED error diagnostic,
\* runs no emitter and leaves the artifact map empty, in either revision.
C13_JsonSchemaRejected ==
    (Done /\ Ran("emit") /\ Options.emit.jsonSchema) =>
        /\ returned.ok = FALSE
        /\ CountCode(diagnostics, E_FEATURE_NOT_IMPLEMENTED) = 1
        /\ diagnostics[Len(diagnostics)] = FeatureDiag
        /\ NoEmitterRan
        /\ artifacts = <<>>

\* The same compilation without binaryPack and without failOnWarnings.
PlainInput ==
    [input EXCEPT !.options.emit.binaryPack = "false",
                  !.options.failOnWarnings = "false"]

\* C14: in a finished compilation with no error diagnostic, ok is false
\* exactly when failOnWarnings is set and a warning exists; binaryPack adds
\* the one warning W_BINARY_PACK_NOT_IMPLEMENTED and nothing else; and the
\* artifact map is the one of the same compilation without binaryPack and
\* failOnWarnings, whether or not ok was flipped.
C14_WarningsAndFailOnWarnings ==
    (Done /\ ~HasSeverity(diagnostics, "error")) =>
        LET plain == compileRun(PlainInput, revision)
        IN  /\ returned.ok = FALSE <=>
                   (Options.failOnWarnings /\ HasSeverity(diagnostics, "warning"))
            /\ artifacts = plain.artifacts
            /\ diagnostics =
                   plain.diagnostics \o
                   (IF Options.emit.binaryPack
                    THEN <<WarningDiag(W_BINARY_PACK_NOT_IMPLEMENTED)>>
                    ELSE <<>>)

\* failOnWarnings flipped ok after the IR, the receipt and the types were
\* stored, on the binaryPack warning alone.
C14_Witness ==
    /\ Done
    /\ returned.ok = FALSE
    /\ ~HasSeverity(diagnostics, "error")
    /\ diagnostics = <<WarningDiag(W_BINARY_PACK_NOT_IMPLEMENTED)>>
    /\ DOMAIN artifacts = {IR_ARTIFACT_KEY, IR_RECEIPT_KEY, TYPES_ARTIFACT_KEY}

\* The fingerprint does not depend on the order of the rule ids.
FingerprintOrderFree ==
    \A p \in PermsOf(Len(VALIDATION_RULE_IDS)) :
        RulesetFingerprint(Permuted(VALIDATION_RULE_IDS, p)) =
            RulesetFingerprint(VALIDATION_RULE_IDS)

\* Other compilations of the same source text: every emit flag and
\* failOnWarnings set either way, and any fault.
SameSourceInputs ==
    {[input EXCEPT !.options = o, !.fault = f] :
         o \in [emit : [irJson : {"true", "false"}, tsTypes : {"true", "false"},
                        jsonSchema : {"true", "false"},
                        binaryPack : {"true", "false"}],
                failOnWarnings : {"true", "false"}],
         f \in Faults}

----------------------------------------------------------------------------
(* Properties of stableStringify *)

Stringified == pc = "stringified"

\* What normalize made of the input.
NormalizedInput == normalize(input.heap, input.value, {}, StackLimit)

NumEntries(cell) == IF cell.kind = "object" THEN Len(cell.entries) ELSE 0

\* The heaps that differ from heap only in the order in which the keys of
\* its objects were inserted.
InsertionOrders(heap) ==
    {[i \in DOMAIN heap |->
          IF heap[i].kind = "object"
          THEN ObjectCell(Permuted(heap[i].entries, P[i]))
          ELSE heap[i]] :
         P \in {Q \in [DOMAIN heap -> UNION {PermsOf(n) : n \in 0..(MaxKeys + 1)}] :
                    \A i \in DOMAIN heap : Q[i] \in PermsOf(NumEntries(heap[i]))}}

RECURSIVE KeysAscending(_)
\* Every object of the output lists its keys in ascending code-unit order.
KeysAscending(tree) ==
    IF tree.t = "prim" THEN TRUE
    ELSE IF tree.t = "array"
    THEN \A i \in DOMAIN tree.elems : KeysAscending(tree.elems[i])
    ELSE /\ \A i, j \in DOMAIN tree.entries :
                i < j => KeyRank(tree.entries[i].k) < KeyRank(tree.entries[j].k)
         /\ \A i \in DOMAIN tree.entries : KeysAscending(tree.entries[i].v)

RECURSIVE SequenceOrderKept(_, _, _)
\* Every array of the input appears in the output with its length and with
\* its elements at their indices.
SequenceOrderKept(heap, value, tree) ==
    IF value.t # "ref" THEN TRUE
    ELSE LET cell == heap[value.a]
         IN  IF cell.kind = "toJSON"
             THEN SequenceOrderKept(heap, cell.returns, tree)
             ELSE IF cell.kind = "array"
             THEN /\ tree.t = "array"
                  /\ Len(tree.elems) = Len(cell.elems)
                  /\ \A i \in DOMAIN cell.elems :
                         /\ cell.elems[i].t = "prim" =>
                                tree.elems[i] = cell.elems[i]
                         /\ SequenceOrderKept(heap, cell.elems[i], tree.elems[i])
             ELSE /\ tree.t = "object"
                  /\ \A i \in DOMAIN tree.entries :
                         SequenceOrderKept(heap,
                                           ValueAt(cell.entries, tree.entries[i].k),
                                           tree.entries[i].v)

\* C16: stableStringify is independent of key insertion order.  Whenever it
\* returns, every input that differs only in the order in which object keys
\* were inserted, at any depth, gives the same text; the keys of every
\* object of the text are in ascending bytewise order; and every array keeps
\* its elements in their order.
C16_KeyOrderIndependence ==
    (Stringified /\ returned.state = "returned") =>
        /\ \A heap \in InsertionOrders(input.heap) :
               stableStringify(heap, input.value) = returned
        /\ KeysAscending(NormalizedInput.v)
        /\ SequenceOrderKept(input.heap, input.value, NormalizedInput.v)

\* The cells a cell refers to.
CellRefs(cell) ==
    CASE cell.kind = "object" ->
             {cell.entries[i].v.a : i \in {j \in DOMAIN cell.entries :
                                               cell.entries[j].v.t = "ref"}}
      [] cell.kind = "array" ->
             {cell.elems[i].a : i \in {j \in DOMAIN cell.elems :
                                           cell.elems[j].t = "ref"}}
      [] OTHER -> IF cell.returns.t = "ref" THEN {cell.returns.a} ELSE {}

CellEdges(heap) ==
    {<<i, j>> \in (DOMAIN heap) \X (DOMAIN heap) : j \in CellRefs(heap[i])}

CellPaths(heap) == PathsUpTo(CellEdges(heap), Len(heap))

\* The value refers to itself: a cell reachable from it lies on a cycle of
\* references.
SelfReferential(heap, value) ==
    /\ value.t = "ref"
    /\ \E i \in DOMAIN heap :
           /\ i = value.a \/ <<value.a, i>> \in CellPaths(heap)
           /\ <<i, i>> \in CellPaths(heap)

\* C17: stableStringify always terminates, rejects every self-referential
\* value with the circular-reference error (the cycle may pass through
\* objects, through arrays only or through a toJSON conversion), and
\* serializes a value without a cycle, shared sub-objects included.
C17_CircularRejected ==
    Stringified =>
        /\ returned.state \in {"returned", "threw"}
        /\ SelfReferential(input.heap, input.value) =>
               (returned.state = "threw" /\ returned.error = CIRCULAR)
        /\ ~SelfReferential(input.heap, input.value) =>
               returned.state = "returned"

RECURSIVE Converted(_, _)
\* The value after its toJSON conversions.
Converted(heap, value) ==
    IF value.t = "ref" /\ heap[value.a].kind = "toJSON"
    THEN Converted(heap, heap[value.a].returns)
    ELSE value

RECURSIVE JsonTextSemantics(_, _, _)
\* The output holds, for every object, exactly the members whose converted
\* value JSON can represent and, for every array, every element at its
\* index, null standing for an element JSON cannot represent.
JsonTextSemantics(heap, value, tree) ==
    LET v == Converted(heap, value)
    IN  IF v.t = "prim" THEN tree = v
        ELSE IF Unrepresentable(v) THEN tree = JsNull
        ELSE IF heap[v.a].kind = "array"
        THEN /\ tree.t = "array"
             /\ Len(tree.elems) = Len(heap[v.a].elems)
             /\ \A i \in DOMAIN tree.elems :
                    JsonTextSemantics(heap, heap[v.a].elems[i], tree.elems[i])
        ELSE /\ tree.t = "object"
             /\ {tree.entries[i].k : i \in DOMAIN tree.entries} =
                    {e.k : e \in {heap[v.a].entries[i] :
                                      i \in {j \in DOMAIN heap[v.a].entries :
                                                 ~Unrepresentable(
                                                     Converted(heap,
                                                         heap[v.a].entries[j].v))}}}
             /\ \A i \in DOMAIN tree.entries :
                    JsonTextSemantics(heap,
                                      ValueAt(heap[v.a].entries, tree.entries[i].k),
                                      tree.entries[i].v)

\* C18: stableStringify follows JSON-text semantics for members JSON cannot
\* represent.  Whenever it returns, an object member whose value is
\* undefined, a function or a symbol, as given or after its toJSON
\* conversion, is left out of the output object, and an array element of
\* those kinds is null at the same index of an output array of the same
\* length.
C18_UnrepresentableMembers ==
    (Stringified /\ returned.state = "returned") =>
        /\ returned.text = JSONstringify(NormalizedInput.v)
        /\ JsonTextSemantics(input.heap, input.value, NormalizedInput.v)

----------------------------------------------------------------------------
(* Properties of buildIdentifierMap *)

Built == pc = "built"

SourceList == input.sources

SourceSet == {SourceList[i] : i \in 1..Len(SourceList)}

Repeats(sources) ==
    \E i, j \in 1..Len(sources) : i # j /\ sources[i] = sources[j]

\* The place of a source among the sources of its base identifier, in
\* bytewise order, counted from 1.
BytewisePlace(src) ==
    1 + Cardinality({t \in SourceSet :
                        /\ toTypeIdentifier(t, revision)
                               = toTypeIdentifier(src, revision)
                        /\ StrLess(t, src)})

Expected(src) ==
    LET base == toTypeIdentifier(src, revision)
        k == BytewisePlace(src)
    IN  IF k = 1 THEN base ELSE base \o <<"_", "_">> \o Decimal(k)

Reorderings(n) ==
    {p \in [1..n -> 1..n] : \A i, j \in 1..n : p[i] = p[j] => i = j}

\* C19: for a list of distinct sources, the smallest source of a base
\* identifier in bytewise order gets the base and the k-th smallest gets
\* base__k; every permutation of the list gives each source the same
\* identifier; and the map lists the sources in the order of the input.
C19_CollisionsByBytewiseOrder ==
    (Built /\ ~Repeats(SourceList)) =>
        /\ returned.state = "returned"
        /\ MapKeys(returned.map) = SourceList
        /\ \A i \in 1..Len(SourceList) :
               returned.map[i].value = Expected(SourceList[i])
        /\ \A p \in Reorderings(Len(SourceList)) :
               LET permuted == [i \in 1..Len(SourceList) |-> SourceList[p[i]]]
                   other == buildIdentifierMap(permuted, revision)
               IN  /\ other.state = "returned"
                   /\ MapKeys(other.map) = permuted
                   /\ \A i \in 1..Len(SourceList) :
                          MapGet(other.map, SourceList[i])
                              = MapGet(returned.map, SourceList[i])

\* Three distinct sources of one base identifier, given in descending
\* bytewise order: the last of the input gets the base, the first gets __3.
C19_Witness ==
    /\ Built
    /\ SourceList = << <<"a", "B">>, <<"a", "-", "b">>, <<"a", " ", "b">> >>
    /\ returned.state = "returned"
    /\ returned.map[1].value = <<"A", "B", "_", "_", "3">>
    /\ returned.map[2].value = <<"A", "B", "_", "_", "2">>
    /\ returned.map[3].value = <<"A", "B">>

\* C20: buildIdentifierMap fails on every list that repeats a source and
\* returns no map.
C20_DuplicatesRejected ==
    (Built /\ Repeats(SourceList)) => returned.state = "threw"

\* The identifiers of the returned map are pairwise distinct.
IdentifiersDistinct(map) ==
    \A i, j \in 1..Len(map) : map[i].value = map[j].value => i = j

\* C21: for every list of pairwise distinct sources the identifiers that
\* buildIdentifierMap assigns are pairwise distinct, also when the identifier
\* of a source has the shape base__N of a collision suffix.
C21_IdentifiersCollisionFree ==
    (Built /\ ~Repeats(SourceList) /\ returned.state = "returned") =>
        IdentifiersDistinct(returned.map)

----------------------------------------------------------------------------
(* Properties of toTypeIdentifier *)

Named == pc = "named"

IsLetter(c) == IsUpper(c) \/ IsLower(c)

IsLegalStart(c) == IsLetter(c) \/ c \in {"_", "$"}

IsLegalChar(c) == IsLegalStart(c) \/ IsDigit(c)

\* The identifier-legal characters of a source after normalization.
LegalChars(source) ==
    SelectSeq([i \in 1..Len(source) |-> NFKC(source[i])], IsLegalChar)

TitleCased(source) == <<CharAt(CodeUnit[source[1]] - 32)>> \o Tail(source)

C22_WitnessFallbackAndPrefix ==
    /\ Named
    /\ \/ /\ input.source = <<"-", E_ACUTE>>
          /\ returned.text = DEFAULT_OPTS.emptyFallback
       \/ /\ input.source = <<"1", "o">>
          /\ returned.text = <<"N", "1", "o">>

----------------------------------------------------------------------------
(* Properties of parseInputToCanonicalAst *)

\* The state behind phase 1 of compile: parseInputToCanonicalAst returned.
ParseReturned == pc = "parsed" /\ trace = <<"parse">>

DiagnosticCodes == [i \in 1..Len(diagnostics) |-> diagnostics[i].code]

\* C23: for canonical-ast-json input parseInputToCanonicalAst returns, and
\* it returns undefined exactly when it appended an error diagnostic; a
\* source of white space gives the one diagnostic E_INPUT_EMPTY and a source
\* JSON.parse rejects gives the one diagnostic E_INPUT_INVALID_JSON, never
\* E_INTERNAL_INVARIANT.
C23_ParseProblemsAreDiagnostics ==
    (pc = "parsed" /\ input.format = "canonical-ast-json") =>
        /\ ParseReturned
        /\ ast = NoAst <=> HasSeverity(diagnostics, "error")
        /\ IsBlank(input.source) => DiagnosticCodes = <<E_INPUT_EMPTY>>
        /\ (~IsBlank(input.source) /\ JsonParseThrows(input.source)) =>
               DiagnosticCodes = <<E_INPUT_INVALID_JSON>>
        /\ (IsBlank(input.source) \/ JsonParseThrows(input.source)) =>
               /\ ast = NoAst
               /\ \A i \in 1..Len(diagnostics) :
                      diagnostics[i].code # E_INTERNAL_INVARIANT

\* A source JSON.parse rejects has been parsed.
C23_Witness ==
    /\ ParseReturned
    /\ input.format = "canonical-ast-json"
    /\ input.source = "{"
    /\ ast = NoAst
    /\ DiagnosticCodes = <<E_INPUT_INVALID_JSON>>

HasHint(d) == "hint" \in DOMAIN d

\* The adapter of a graphql-sdl input is missing or its call fails.
AdapterUnusable ==
    /\ input.format = "graphql-sdl"
    /\ input.adapter = "missing" \/ AdapterThrows(input.adapter)

\* What the adapter had pushed when parseGraphqlSdl returned.
PushedByAdapter ==
    IF AdapterThrows(input.adapter) /\ ~IsBlank(input.source)
    THEN AdapterPushes(input.adapter) ELSE <<>>

\* C24: for graphql-sdl input with a missing or failing adapter,
\* parseInputToCanonicalAst returns undefined and appends exactly one
\* E_INTERNAL_INVARIANT diagnostic, which carries a hint, behind the
\* diagnostics the adapter had pushed.
C24_AdapterFailuresWrapped ==
    (pc = "parsed" /\ AdapterUnusable) =>
        /\ ParseReturned
        /\ ast = NoAst
        /\ CountCode(diagnostics, E_INTERNAL_INVARIANT) = 1
        /\ \A i \in 1..Len(diagnostics) :
               diagnostics[i].code = E_INTERNAL_INVARIANT =>
                   HasHint(diagnostics[i])
        /\ SubSeq(diagnostics, 1, Len(PushedByAdapter)) = PushedByAdapter

----------------------------------------------------------------------------
(* Properties of interleaved compilations *)

\* compile run alone on the input of an invocation.
Alone(inp, rev) ==
    LET p == parseInputToCanonicalAst(inp)
        v == ValidatePhase(inp, rev, p.ast, p.diagnostics, <<"parse">>)
    IN  IF v.done THEN v
        ELSE EmitPhase(inp, rev,
                       OptionsOf(mergeOptionsOnto(DEFAULT_OPTIONS, inp.options),
                                 [defaults |-> DEFAULT_OPTIONS]),
                       p.ast, v.diagnostics, v.trace)

Settled(c) == pc = "interleaved" /\ calls[c].pc = "settled"

\* The diagnostics array and the artifact map the result of c refers to.
ResultDiagnostics(c) == objects.arrays[calls[c].diagnostics]
ResultArtifacts(c) == objects.maps[calls[c].artifacts]

\* c was suspended on its adapter while the other invocation ran.
SuspendedAcross(c) == calls[c].overtaken

\* C25: when two invocations of compile are interleaved, the diagnostics
\* array and the artifact map of each result hold exactly what the
\* invocation produces when it runs alone, and DEFAULT_OPTIONS keeps its
\* value.
C25_InterleavedCompilesIsolated ==
    pc = "interleaved" =>
        /\ objects.defaults = DEFAULT_OPTIONS
        /\ \A c \in Calls :
               Settled(c) =>
                   /\ ResultDiagnostics(c)
                          = Alone(calls[c].input, revision).diagnostics
                   /\ ResultArtifacts(c)
                          = Alone(calls[c].input, revision).artifacts
                   /\ calls[c].returned
                          = Alone(calls[c].input, revision).returned

\* Both invocations settled, the first was suspended on its adapter while
\* the second ran, both results hold diagnostics and artifacts, the results
\* differ, and one invocation used DEFAULT_OPTIONS itself.
C25_Witness ==
    /\ \A c \in Calls : Settled(c)
    /\ SuspendedAcross(1)
    /\ \A c \in Calls :
           ResultDiagnostics(c) # <<>> /\ DOMAIN ResultArtifacts(c) # {}
    /\ ResultDiagnostics(1) # ResultDiagnostics(2)
    /\ ResultArtifacts(1) # ResultArtifacts(2)
    /\ calls[1].options.ref = "DEFAULT_OPTIONS"
    /\ calls[2].options.ref = "own"

----------------------------------------------------------------------------
(* Properties of sanitize *)

AuthoringOnly == {"sourceRef", "__typename"}

Plain(node) == [f \in (DOMAIN node) \ AuthoringOnly |-> node[f]]

\* The ASTs that differ from a in the authoring fields of their nodes only.
Reauthored(a) ==
    {[a EXCEPT !.nodes = nodes] :
         nodes \in {ns \in [DOMAIN a.nodes -> AuthoredNodes] :
                        \A i \in DOMAIN a.nodes : Plain(ns[i]) = Plain(a.nodes[i])}}

\* C26: no node of the emitted IR has a sourceRef or a __typename field, and
\* every AST that differs from the input in the sourceRef and __typename of
\* its nodes only is emitted as the same IR.
C26_AuthoringFieldsStripped ==
    pc = "emitted" =>
        /\ \A i \in DOMAIN ir.nodes : DOMAIN ir.nodes[i] \cap AuthoringOnly = {}
        /\ \A b \in Reauthored(ast) : emitSvjifIrArtifact(b) = ir

\* An emitted AST of two nodes, one with a sourceRef and a __typename and
\* one with a sourceRef only, that has other authorings of the same nodes.
C26_Witness ==
    /\ pc = "emitted"
    /\ Len(ast.nodes) = 2
    /\ Len(ir.nodes) = 2
    /\ DOMAIN ast.nodes[1] \cap AuthoringOnly = AuthoringOnly
    /\ DOMAIN ast.nodes[2] \cap AuthoringOnly = {"sourceRef"}
    /\ ast.nodes[1].id # ast.nodes[2].id
    /\ \E b \in Reauthored(ast) : b # ast

----------------------------------------------------------------------------
(* Properties of the cycle report *)

\* The ids reported with E_CYCLE_DETECTED.
CycleReported ==
    {id \in NodeIds(ast.nodes) :
         CountDiags(diagnostics, E_CYCLE_DETECTED, [nodeId |-> id]) > 0}

\* C27: every node id reported with E_CYCLE_DETECTED lies on a cycle of the
\* parentId graph itself, and is reported exactly once.
C27_CycleReportNamesCycleNodes ==
    Validated =>
        /\ CycleReported \subseteq OnCycle(ast.nodes)
        /\ \A id \in CycleReported :
               CountDiags(diagnostics, E_CYCLE_DETECTED, [nodeId |-> id]) = 1
        /\ CountCode(diagnostics, E_CYCLE_DETECTED) = Cardinality(CycleReported)

----------------------------------------------------------------------------
(* Properties of normalizeZIndex *)

NonFinite(z) == z.t \in {"nan", "inf"}

\* The sign sort reads from the comparator, on the nodes of an array.
Precedes(nodes, i, j) == SortCompare(nodes[i], nodes[j]) < 0

\* C28: when a node carries a zIndex of NaN, +Infinity or -Infinity,
\* normalizeZIndex yields a finite number for every node, the comparator of
\* sortReady is a strict total order on the nodes (their ids are distinct),
\* and the IR emitted for every permutation of the node array equals the IR
\* emitted for the array as given.
C28_NonFiniteZIndexGuarded ==
    (/\ Emitted
     /\ UniqueIds(ast.nodes)
     /\ \E i \in DOMAIN ast.nodes : NonFinite(ast.nodes[i].zIndex)) =>
        /\ \A i \in DOMAIN ast.nodes :
               normalizeZIndex(ast.nodes[i].zIndex).t = "num"
        /\ \A i, j \in DOMAIN ast.nodes :
               i # j => (Precedes(ast.nodes, i, j) <=> ~Precedes(ast.nodes, j, i))
        /\ \A i, j, k \in DOMAIN ast.nodes :
               (Precedes(ast.nodes, i, j) /\ Precedes(ast.nodes, j, k))
                   => Precedes(ast.nodes, i, k)
        /\ \A p \in PermsOf(Len(ast.nodes)) :
               emitSvjifIrArtifact([ast EXCEPT !.nodes = Permuted(ast.nodes, p)])
                   = ir

----------------------------------------------------------------------------
(* Properties of the Kahn loops *)

Occurrences(seq, x) == Cardinality({i \in DOMAIN seq : seq[i] = x})

Looping == pc \in {"detectCycles", "topoSort"}

LoopReturned == pc = "returned"

\* Entries leave neither worklist, so what a worklist holds is what was
\* placed on it.  detectCycles queues ids; topoSort queues nodes, and a node
\* array may hold equal nodes.
PlacedAtMostOnce ==
    (Looping \/ LoopReturned) =>
        /\ loop.qi <= Len(loop.queue)
        /\ Len(loop.queue) <= Len(ast.nodes)
        /\ \A k \in DOMAIN loop.queue :
               Occurrences(loop.queue, loop.queue[k])
                   <= IF loop.fn = "detectCycles" THEN 1
                      ELSE Occurrences(ast.nodes, loop.queue[k])

\* The steps a call has left at most: the entry, one iteration for each
\* node not dequeued yet, and the return.
StepsLeft ==
    CASE pc = "input" -> Len(ast.nodes) + 2
      [] Looping -> Len(ast.nodes) - loop.qi + 1
      [] OTHER -> 0

\* C29: for every node array (chains, rings, self-parents, dangling parents
\* and duplicate ids included) the Kahn loops of detectCycles and of topoSort
\* finish: every step of a call lowers a count that starts at the number of
\* nodes plus two and never falls below zero.  No id (detectCycles) and no
\* node (topoSort) is placed on the worklist more than once.
C29_WorklistsTerminate ==
    /\ [](PlacedAtMostOnce /\ StepsLeft >= 0)
    /\ [][StepsLeft' < StepsLeft]_vars

\* topoSort returned for an array of three nodes with a repeated id in which
\* a node was placed on the worklist by the loop.
C29_Witness ==
    /\ LoopReturned
    /\ loop.fn = "topoSort"
    /\ Len(ast.nodes) = 3
    /\ HasDuplicateId(ast.nodes)
    /\ loop.qi = 3
    /\ \E k \in DOMAIN loop.queue :
           HasResolvedParent(ast.nodes, loop.queue[k])

----------------------------------------------------------------------------
(* Properties of the AST's life cycle *)

Assembled == pc = "assembled"

\* C30: validateCanonicalAst, emitSvjifIrArtifact and stableStringify leave
\* the AST as the parser returned it: the node array in the same order, and
\* every node, binding, animation and scene field (sourceRef included) with
\* the same value; the ast of the result that compile assembles is that AST.
C30_AstFlowsReadOnly ==
    pc \in {"checked", "assembled"} =>
        /\ ast = input.parsed
        /\ Assembled => (returned.ast = input.parsed /\ ir = emitSvjifIrArtifact(ast))

\* An AST was validated and emitted whose nodes were given in another order
\* than the IR has them, with a binding and an animation.
C30_Witness ==
    /\ Assembled
    /\ Len(ast.nodes) = 2
    /\ ir.nodes # SanitizeAll(ast.nodes)
    /\ ast.nodes[1].sourceRef # ast.nodes[2].sourceRef
    /\ ast.bindings # <<>> /\ ast.animations # <<>>

============================================================================
